---- MODULE Spec2Model ----
(***************************************************************************)
(* Model of vm/src/cformat.rs: printf-style ("%") formatting.              *)
(*                                                                         *)
(* Characters are Unicode code points (naturals), text is a sequence of    *)
(* code points, a byte string is a sequence of naturals below 256.         *)
(* Option<T> is a sequence of length at most one: None is << >>, Some(x)   *)
(* is <<x>>.  A Peekable<Enumerate<I>> over a source is the 1-based        *)
(* position p of the next item; the item's enumerate index is p - 1.       *)
(***************************************************************************)
EXTENDS Integers, Sequences, FiniteSets, TLC

VARIABLES
    kind,        \* "str" (CFormatString) or "bytes" (CFormatBytes)
    source,      \* the template source the object was parsed from
    parsed,      \* outcome of the parse: Ok(parts) or Err(CFormatError)
    parts,       \* self.parts, the field format(&mut self) walks and mutates
    before,      \* self.parts as the last format call found it
    calls,       \* number of format calls made on this object
    args,        \* values_obj, the args object of the last format call
    result,      \* outcome of the last format call
    mode,        \* mapping_required of the last format call
    log,         \* arguments the last format call took from the tuple, in order
    rspec,       \* renderer: the CFormatSpec a rendering function is applied to
    rarg,        \* renderer: the value handed to it
    rout,        \* renderer: what it returned
    rop          \* renderer: which function produced rout

vars == <<kind, source, parsed, parts, before, calls, args, result, mode,
          log, rspec, rarg, rout, rop>>

-----------------------------------------------------------------------------
(* Characters the grammar names.                                           *)

Ch == [ percent |-> 37, lparen |-> 40, rparen |-> 41, star |-> 42,
        plus |-> 43, minus |-> 45, dot |-> 46, zero |-> 48, nine |-> 57,
        space |-> 32, hash |-> 35, quote |-> 39, lbrace |-> 123,
        rbrace |-> 125,
        a |-> 97, b |-> 98, c |-> 99, d |-> 100, e |-> 101, f |-> 102,
        g |-> 103, h |-> 104, i |-> 105, k |-> 107, l |-> 108, n |-> 110,
        o |-> 111, r |-> 114, s |-> 115, u |-> 117, x |-> 120,
        E |-> 69, F |-> 70, G |-> 71, L |-> 76, X |-> 88 ]

None == << >>
Some(x) == <<x>>

(* Call by value: evaluate v once, then the body with the value bound.     *)
Let(v, Body(_)) == CHOOSE out \in {Body(x) : x \in {v}} : TRUE

Max(a, b) == IF a >= b THEN a ELSE b
Min(a, b) == IF a <= b THEN a ELSE b

RECURSIVE Pow2(_)
Pow2(n) == IF n = 0 THEN 1 ELSE 2 * Pow2(n - 1)

(* Width in bits of the platform size type (usize / isize).                *)
UsizeBits == 5

UsizeModulus == Pow2(UsizeBits)
IsizeMax == Pow2(UsizeBits - 1) - 1
IsizeMin == 0 - Pow2(UsizeBits - 1)

(* `x as usize` for an isize x.                                            *)
as_usize(x) == x % UsizeModulus

-----------------------------------------------------------------------------
(* Data model.                                                             *)

Amount(n) == [q |-> "Amount", n |-> n]
FromValuesTuple == [q |-> "FromValuesTuple"]

CConversionFlags ==
    {"ALTERNATE_FORM", "ZERO_PAD", "LEFT_ADJUST", "BLANK_SIGN", "SIGN_CHAR"}

Number(sub) == [ty |-> "Number", sub |-> sub]
Float(sub) == [ty |-> "Float", sub |-> sub]
Character == [ty |-> "Character", sub |-> "Character"]
String(sub) == [ty |-> "String", sub |-> sub]

CFormatSpec(mapping_key, flags, min_field_width, precision, format_type, format_char) ==
    [ mapping_key |-> mapping_key, flags |-> flags,
      min_field_width |-> min_field_width, precision |-> precision,
      format_type |-> format_type, format_char |-> format_char ]

Literal(text) == [part |-> "Literal", text |-> text]
Spec_(spec) == [part |-> "Spec", spec |-> spec]

is_specifier(part) == part.part = "Spec"

has_key(part) ==
    IF part.part = "Spec" THEN part.spec.mapping_key # None ELSE FALSE

(* Result<T, ParsingError> of the parsing functions; pos is the iterator   *)
(* position they leave behind.                                             *)
POk(val, pos) == [ok |-> TRUE, val |-> val, pos |-> pos]
PErr(typ, index) == [ok |-> FALSE, typ |-> typ, index |-> index]

-----------------------------------------------------------------------------
(* Parser.                                                                 *)

to_digit(c) == IF c >= Ch.zero /\ c <= Ch.nine THEN Some(c - Ch.zero) ELSE None

(* Variant: the accumulation is unchecked and wraps.                       *)
RECURSIVE parse_quantity_digits_unchecked(_, _, _)
parse_quantity_digits_unchecked(src, p, num) ==
    IF p <= Len(src) /\ to_digit(src[p]) # None
    THEN parse_quantity_digits_unchecked(src, p + 1,
                                         num * 10 + to_digit(src[p])[1])
    ELSE POk(Some(Amount(as_usize(num))), p)

RECURSIVE parse_quantity_digits(_, _, _)
parse_quantity_digits(src, p, num) ==
    IF p <= Len(src) /\ to_digit(src[p]) # None
    THEN LET i == to_digit(src[p])[1]
         IN  IF num * 10 > IsizeMax \/ num * 10 + i > IsizeMax
             THEN PErr(<<"IntTooBig">>, p - 1)
             ELSE parse_quantity_digits(src, p + 1, num * 10 + i)
    ELSE POk(Some(Amount(as_usize(num))), p)

parse_quantity(src, p) ==
    IF p <= Len(src)
    THEN IF src[p] = Ch.star
         THEN POk(Some(FromValuesTuple), p + 1)
         ELSE IF to_digit(src[p]) # None
              THEN parse_quantity_digits(src, p + 1, to_digit(src[p])[1])
              ELSE POk(None, p)
    ELSE POk(None, p)

parse_precision(src, p) ==
    IF p <= Len(src) /\ src[p] = Ch.dot
    THEN parse_quantity(src, p + 1)
    ELSE POk(None, p)

RECURSIVE parse_text_inside_parentheses(_, _, _, _)
parse_text_inside_parentheses(src, p, counter, contained_text) ==
    IF p > Len(src)
    THEN None
    ELSE LET c == src[p]
             counter1 == IF c = Ch.lparen THEN counter + 1
                         ELSE IF c = Ch.rparen THEN counter - 1
                         ELSE counter
         IN  IF counter1 > 0
             THEN parse_text_inside_parentheses(src, p + 1, counter1,
                                                Append(contained_text, c))
             ELSE Some([text |-> contained_text, pos |-> p + 1])

(* Variant: the depth counter starts at 2.                                 *)
parse_spec_mapping_key_depth_two(src, p) ==
    IF p <= Len(src) /\ src[p] = Ch.lparen
    THEN LET r == parse_text_inside_parentheses(src, p + 1, 2, << >>)
         IN  IF r # None
             THEN POk(Some(r[1].text), r[1].pos)
             ELSE PErr(<<"UnmatchedKeyParentheses">>, p - 1)
    ELSE POk(None, p)

parse_spec_mapping_key(src, p) ==
    IF p <= Len(src) /\ src[p] = Ch.lparen
    THEN LET r == parse_text_inside_parentheses(src, p + 1, 1, << >>)
         IN  IF r # None
             THEN POk(Some(r[1].text), r[1].pos)
             ELSE PErr(<<"UnmatchedKeyParentheses">>, p - 1)
    ELSE POk(None, p)

flag_of(c) ==
    IF c = Ch.hash THEN Some("ALTERNATE_FORM")
    ELSE IF c = Ch.zero THEN Some("ZERO_PAD")
    ELSE IF c = Ch.minus THEN Some("LEFT_ADJUST")
    ELSE IF c = Ch.space THEN Some("BLANK_SIGN")
    ELSE IF c = Ch.plus THEN Some("SIGN_CHAR")
    ELSE None

RECURSIVE parse_flags_from(_, _, _)
parse_flags_from(src, p, flags) ==
    IF p <= Len(src) /\ flag_of(src[p]) # None
    THEN parse_flags_from(src, p + 1, flags \cup {flag_of(src[p])[1]})
    ELSE POk(flags, p)

parse_flags(src, p) == parse_flags_from(src, p, {})

consume_length(src, p) ==
    IF p <= Len(src) /\ src[p] \in {Ch.h, Ch.l, Ch.L} THEN p + 1 ELSE p

(* Variant: 'n' is taken for a decimal conversion.                         *)
format_type_of_accepting_n(c) ==
    IF c \in {Ch.d, Ch.i, Ch.u, Ch.n} THEN Some(Number("Decimal"))
    ELSE IF c = Ch.o THEN Some(Number("Octal"))
    ELSE IF c = Ch.x THEN Some(Number("HexLowercase"))
    ELSE IF c = Ch.X THEN Some(Number("HexUppercase"))
    ELSE IF c = Ch.e THEN Some(Float("ExponentLowercase"))
    ELSE IF c = Ch.E THEN Some(Float("ExponentUppercase"))
    ELSE IF c = Ch.f THEN Some(Float("PointDecimal"))
    ELSE IF c = Ch.F THEN Some(Float("PointDecimal"))
    ELSE IF c = Ch.g THEN Some(Float("GeneralLowercase"))
    ELSE IF c = Ch.G THEN Some(Float("GeneralUppercase"))
    ELSE IF c = Ch.c THEN Some(Character)
    ELSE IF c = Ch.r THEN Some(String("Repr"))
    ELSE IF c = Ch.s THEN Some(String("Str"))
    ELSE IF c = Ch.b THEN Some(String("Bytes"))
    ELSE IF c = Ch.a THEN Some(String("Ascii"))
    ELSE None

format_type_of(c) ==
    IF c \in {Ch.d, Ch.i, Ch.u} THEN Some(Number("Decimal"))
    ELSE IF c = Ch.o THEN Some(Number("Octal"))
    ELSE IF c = Ch.x THEN Some(Number("HexLowercase"))
    ELSE IF c = Ch.X THEN Some(Number("HexUppercase"))
    ELSE IF c = Ch.e THEN Some(Float("ExponentLowercase"))
    ELSE IF c = Ch.E THEN Some(Float("ExponentUppercase"))
    ELSE IF c = Ch.f THEN Some(Float("PointDecimal"))
    ELSE IF c = Ch.F THEN Some(Float("PointDecimal"))
    ELSE IF c = Ch.g THEN Some(Float("GeneralLowercase"))
    ELSE IF c = Ch.G THEN Some(Float("GeneralUppercase"))
    ELSE IF c = Ch.c THEN Some(Character)
    ELSE IF c = Ch.r THEN Some(String("Repr"))
    ELSE IF c = Ch.s THEN Some(String("Str"))
    ELSE IF c = Ch.b THEN Some(String("Bytes"))
    ELSE IF c = Ch.a THEN Some(String("Ascii"))
    ELSE None

(* iter.peek().map(|x| x.0).unwrap_or(dflt)                                *)
peek_index_or(src, p, dflt) == IF p <= Len(src) THEN p - 1 ELSE dflt

(* When iter.next() is None the iterator is exhausted, the peek that       *)
(* follows is None too, and the reported offset is the default 0.          *)
parse_format_type(src, p) ==
    IF p > Len(src)
    THEN PErr(<<"IncompleteFormat">>, peek_index_or(src, p + 1, 0))
    ELSE LET c == src[p]
         IN  IF format_type_of(c) # None
             THEN POk([format_type |-> format_type_of(c)[1],
                       format_char |-> c], p + 1)
             ELSE PErr(<<"UnsupportedFormatChar", c>>, p - 1)

CFormatSpec_parse(src, p) ==
    Let(parse_spec_mapping_key(src, p), LAMBDA key :
    IF ~key.ok THEN key ELSE
    Let(parse_flags(src, key.pos), LAMBDA flags :
    Let(parse_quantity(src, flags.pos), LAMBDA width :
    IF ~width.ok THEN width ELSE
    Let(parse_precision(src, width.pos), LAMBDA prec :
    IF ~prec.ok THEN prec ELSE
    Let(parse_format_type(src, consume_length(src, prec.pos)), LAMBDA ft :
    IF ~ft.ok THEN ft ELSE
    POk(CFormatSpec(key.val, flags.val, width.val,
                    IF prec.val # None THEN prec.val
                    ELSE IF ft.val.format_type.ty = "Float"
                         THEN Some(Amount(6))
                         ELSE None,
                    ft.val.format_type, ft.val.format_char), ft.pos))))))

(* parts.push((part_index, Literal(take(&mut literal)))) unless the        *)
(* literal is empty.                                                       *)
(* Variant: the literal part loses its first character.                    *)
flush_literal_without_first(acc, literal, part_index) ==
    IF literal # << >>
    THEN Append(acc, <<part_index, Literal(Tail(literal))>>)
    ELSE acc

flush_literal(acc, literal, part_index) ==
    IF literal # << >>
    THEN Append(acc, <<part_index, Literal(literal)>>)
    ELSE acc

(* Variant: a '%%' pair puts both of its characters into the literal.      *)
RECURSIVE parse_from_keeping_pairs(_, _, _, _, _)
parse_from_keeping_pairs(src, p, acc, literal, part_index) ==
    IF p > Len(src)
    THEN POk(flush_literal(acc, literal, part_index), p)
    ELSE IF src[p] # Ch.percent
    THEN parse_from_keeping_pairs(src, p + 1, acc, Append(literal, src[p]),
                                  part_index)
    ELSE IF p + 1 > Len(src)
    THEN PErr(<<"IncompleteFormat">>, (p - 1) + 1)
    ELSE IF src[p + 1] = Ch.percent
    THEN parse_from_keeping_pairs(src, p + 2, acc,
                                  literal \o <<Ch.percent, Ch.percent>>,
                                  part_index)
    ELSE Let(CFormatSpec_parse(src, p + 1), LAMBDA spec :
         IF ~spec.ok THEN spec
         ELSE parse_from_keeping_pairs(src, spec.pos,
                  Append(flush_literal(acc, literal, part_index),
                         <<p - 1, Spec_(spec.val)>>),
                  << >>,
                  peek_index_or(src, spec.pos, part_index)))

(* Variant: a trailing '%' is reported at its own offset.                  *)
RECURSIVE parse_from_reporting_percent(_, _, _, _, _)
parse_from_reporting_percent(src, p, acc, literal, part_index) ==
    IF p > Len(src)
    THEN POk(flush_literal(acc, literal, part_index), p)
    ELSE IF src[p] # Ch.percent
    THEN parse_from_reporting_percent(src, p + 1, acc,
                                      Append(literal, src[p]), part_index)
    ELSE IF p + 1 > Len(src)
    THEN PErr(<<"IncompleteFormat">>, p - 1)
    ELSE IF src[p + 1] = Ch.percent
    THEN parse_from_reporting_percent(src, p + 2, acc,
                                      Append(literal, Ch.percent), part_index)
    ELSE Let(CFormatSpec_parse(src, p + 1), LAMBDA spec :
         IF ~spec.ok THEN spec
         ELSE parse_from_reporting_percent(src, spec.pos,
                  Append(flush_literal(acc, literal, part_index),
                         <<p - 1, Spec_(spec.val)>>),
                  << >>,
                  peek_index_or(src, spec.pos, part_index)))

RECURSIVE parse_from(_, _, _, _, _)
parse_from(src, p, acc, literal, part_index) ==
    IF p > Len(src)
    THEN POk(flush_literal(acc, literal, part_index), p)
    ELSE IF src[p] # Ch.percent
    THEN parse_from(src, p + 1, acc, Append(literal, src[p]), part_index)
    ELSE IF p + 1 > Len(src)
    THEN PErr(<<"IncompleteFormat">>, (p - 1) + 1)
    ELSE IF src[p + 1] = Ch.percent
    THEN parse_from(src, p + 2, acc, Append(literal, Ch.percent), part_index)
    ELSE Let(CFormatSpec_parse(src, p + 1), LAMBDA spec :
         IF ~spec.ok THEN spec
         ELSE parse_from(src, spec.pos,
                  Append(flush_literal(acc, literal, part_index),
                         <<p - 1, Spec_(spec.val)>>),
                  << >>,
                  peek_index_or(src, spec.pos, part_index)))

parse(src) == parse_from(src, 1, << >>, << >>, 0)

(* CFormatString::parse / CFormatBytes::parse: Ok(Self { parts }) or       *)
(* Err(CFormatError { typ, index }).                                       *)
Parsed(r) ==
    IF r.ok THEN [ok |-> TRUE, parts |-> r.val]
    ELSE [ok |-> FALSE, typ |-> r.typ, index |-> r.index]

CFormatString_from_str(text) == Parsed(parse(text))

(* bytes.iter().map(|&x| x as char): byte b becomes the character U+00b.   *)
byte_as_char(x) == x

CFormatBytes_parse_from_bytes(bytes) ==
    Parsed(parse([j \in 1..Len(bytes) |-> byte_as_char(bytes[j])]))

-----------------------------------------------------------------------------
(* Argument values (PyObjectRef), by class.                                *)

PyInt(n) == [cls |-> "int", int |-> n]
PyStr(text) == [cls |-> "str", str |-> text]
PyBytes(bytes) == [cls |-> "bytes", bytes |-> bytes]
PyTuple(elements) == [cls |-> "tuple", items |-> elements]
PyDict(map) == [cls |-> "dict", map |-> map]

isinstance(obj, cls) == obj.cls = cls

(* PyResult<T>: Ok(out), or Err(exception) with the message's parts.       *)
Ok(out) == [tag |-> "Ok", out |-> out]
Err(exc, msg, ch, cls) ==
    [tag |-> "Err", exc |-> exc, msg |-> msg, ch |-> ch, cls |-> cls]
Panic == [tag |-> "Panic"]

TypeError(msg) == Err("TypeError", msg, 0, "")

Repeat(x, n) == [j \in 1..(IF n > 0 THEN n ELSE 0) |-> x]

Take(seq, n) == SubSeq(seq, 1, Min(n, Len(seq)))

(* BigInt::to_str_radix on a magnitude: lowercase digits, no prefix.       *)
digit_char(v) == IF v < 10 THEN Ch.zero + v ELSE Ch.a + (v - 10)

RECURSIVE to_str_radix(_, _)
to_str_radix(magnitude, radix) ==
    IF magnitude < radix
    THEN <<digit_char(magnitude)>>
    ELSE Append(to_str_radix(magnitude \div radix, radix),
                digit_char(magnitude % radix))

make_ascii_uppercase(text) ==
    [j \in 1..Len(text) |->
        IF text[j] >= 97 /\ text[j] <= 122 THEN text[j] - 32 ELSE text[j]]

abs(num) == IF num < 0 THEN 0 - num ELSE num

(* String::into_bytes: the UTF-8 encoding of the text.                     *)
utf8_char(c) ==
    IF c < 128 THEN <<c>>
    ELSE IF c < 2048 THEN <<192 + (c \div 64), 128 + (c % 64)>>
    ELSE IF c < 65536
         THEN <<224 + (c \div 4096), 128 + ((c \div 64) % 64), 128 + (c % 64)>>
         ELSE <<240 + (c \div 262144), 128 + ((c \div 4096) % 64),
                128 + ((c \div 64) % 64), 128 + (c % 64)>>

RECURSIVE into_bytes(_)
into_bytes(text) ==
    IF Len(text) = 0 THEN << >>
    ELSE IF Len(text) = 1 THEN utf8_char(text[1])
    ELSE LET half == Len(text) \div 2
         IN  into_bytes(SubSeq(text, 1, half))
             \o into_bytes(SubSeq(text, half + 1, Len(text)))

(* The host's str() and repr() of a value.                                 *)
int_to_string(n) ==
    IF n < 0 THEN <<Ch.minus>> \o to_str_radix(abs(n), 10)
    ELSE to_str_radix(n, 10)

RECURSIVE vm_to_repr(_)
RECURSIVE join_repr(_)
join_repr(elements) ==
    IF elements = << >> THEN << >>
    ELSE vm_to_repr(Head(elements)) \o <<44>> \o join_repr(Tail(elements))

vm_to_repr(obj) ==
    IF obj.cls = "int" THEN int_to_string(obj.int)
    ELSE IF obj.cls = "str" THEN <<Ch.quote>> \o obj.str \o <<Ch.quote>>
    ELSE IF obj.cls = "bytes"
         THEN <<Ch.b, Ch.quote>> \o obj.bytes \o <<Ch.quote>>
    ELSE IF obj.cls = "tuple"
         THEN <<Ch.lparen>> \o join_repr(obj.items) \o <<Ch.rparen>>
    ELSE IF obj.cls = "dict"
         THEN IF DOMAIN obj.map = {} THEN <<Ch.lbrace, Ch.rbrace>>
              ELSE LET key == CHOOSE key \in DOMAIN obj.map : TRUE
                   IN  <<Ch.lbrace, Ch.quote>> \o key \o <<Ch.quote, 58>>
                       \o vm_to_repr(obj.map[key]) \o <<Ch.rbrace>>
    ELSE << >>

vm_to_str(obj) == IF obj.cls = "str" THEN obj.str ELSE vm_to_repr(obj)

-----------------------------------------------------------------------------
(* Renderer.                                                               *)

(* Variant: the blank sign outranks the forced sign.                       *)
sign_string_blank_first(flags) ==
    IF "BLANK_SIGN" \in flags THEN <<Ch.space>>
    ELSE IF "SIGN_CHAR" \in flags THEN <<Ch.plus>>
    ELSE << >>

sign_string(flags) ==
    IF "SIGN_CHAR" \in flags THEN <<Ch.plus>>
    ELSE IF "BLANK_SIGN" \in flags THEN <<Ch.space>>
    ELSE << >>

compute_fill_string(fill_char, fill_chars_needed) ==
    Repeat(fill_char, fill_chars_needed)

(* Variant: the field is the width on top of the content, not their max.   *)
fill_string_adding_width(spec, string, fill_char, num_prefix_chars) ==
    LET num_chars == Len(string) +
                     (IF num_prefix_chars # None THEN num_prefix_chars[1] ELSE 0)
        w == spec.min_field_width
        width == IF w # None /\ w[1].q = "Amount"
                 THEN w[1].n + num_chars
                 ELSE num_chars
        fill_chars_needed == width - num_chars
        fill == compute_fill_string(fill_char, fill_chars_needed)
    IN  IF fill # << >>
        THEN IF "LEFT_ADJUST" \in spec.flags
             THEN string \o fill
             ELSE fill \o string
        ELSE string

fill_string(spec, string, fill_char, num_prefix_chars) ==
    LET num_chars == Len(string) +
                     (IF num_prefix_chars # None THEN num_prefix_chars[1] ELSE 0)
        w == spec.min_field_width
        width == IF w # None /\ w[1].q = "Amount"
                 THEN Max(w[1].n, num_chars)
                 ELSE num_chars
        fill_chars_needed == width - num_chars
        fill == compute_fill_string(fill_char, fill_chars_needed)
    IN  IF fill # << >>
        THEN IF "LEFT_ADJUST" \in spec.flags
             THEN string \o fill
             ELSE fill \o string
        ELSE string

(* Variant: the precision does not truncate.                               *)
format_string_with_precision_untruncated(spec, string, precision) ==
    fill_string(spec, string, Ch.space, None)

format_string_with_precision(spec, string, precision) ==
    LET truncated ==
            IF precision # None /\ precision[1].q = "Amount"
               /\ Len(string) > precision[1].n
            THEN Take(string, precision[1].n)
            ELSE string
    IN  fill_string(spec, truncated, Ch.space, None)

format_string(spec, string) ==
    format_string_with_precision(spec, string, spec.precision)

format_char(spec, ch) ==
    format_string_with_precision(spec, <<ch>>, Some(Amount(1)))

(* `width - bytes.len()` is a usize subtraction: when the width is smaller *)
(* than the content it overflows, which panics in a checked build and in   *)
(* an unchecked build wraps to a fill count no Vec can hold.               *)
format_bytes(spec, bytes) ==
    LET p == spec.precision
        w == spec.min_field_width
        cut == IF p # None /\ p[1].q = "Amount"
               THEN SubSeq(bytes, 1, Min(Len(bytes), p[1].n))
               ELSE bytes
    IN  IF w # None /\ w[1].q = "Amount"
        THEN IF w[1].n < Len(cut)
             THEN Panic
             ELSE LET fill == Max(0, w[1].n - Len(cut))
                  IN  IF "LEFT_ADJUST" \in spec.flags
                      THEN Ok(cut \o Repeat(Ch.space, fill))
                      ELSE Ok(Repeat(Ch.space, fill) \o cut)
        ELSE Ok(cut)

number_prefix(spec) ==
    IF "ALTERNATE_FORM" \in spec.flags
    THEN IF spec.format_type = Number("Octal") THEN <<Ch.zero, Ch.o>>
         ELSE IF spec.format_type = Number("HexLowercase") THEN <<Ch.zero, Ch.x>>
         ELSE IF spec.format_type = Number("HexUppercase") THEN <<Ch.zero, Ch.X>>
         ELSE << >>
    ELSE << >>

number_magnitude_string(spec, magnitude) ==
    IF spec.format_type = Number("Decimal") THEN to_str_radix(magnitude, 10)
    ELSE IF spec.format_type = Number("Octal") THEN to_str_radix(magnitude, 8)
    ELSE IF spec.format_type = Number("HexLowercase")
         THEN to_str_radix(magnitude, 16)
    ELSE make_ascii_uppercase(to_str_radix(magnitude, 16))

number_sign_string(spec, num) ==
    IF num < 0 THEN <<Ch.minus>> ELSE sign_string(spec.flags)

(* Variant: '-' does not override '0', the zero fill stays.                *)
format_number_zero_fill_always(spec, num) ==
    LET magnitude == abs(num)
        prefix == number_prefix(spec)
        magnitude_string == number_magnitude_string(spec, magnitude)
        sign == number_sign_string(spec, num)
    IN  IF "ZERO_PAD" \in spec.flags
        THEN LET fill_char == Ch.zero
                 signed_prefix == sign \o prefix
             IN  signed_prefix \o fill_string(spec, magnitude_string, fill_char,
                                              Some(Len(signed_prefix)))
        ELSE fill_string(spec, sign \o prefix \o magnitude_string, Ch.space,
                         None)

format_number(spec, num) ==
    LET magnitude == abs(num)
        prefix == number_prefix(spec)
        magnitude_string == number_magnitude_string(spec, magnitude)
        sign == number_sign_string(spec, num)
    IN  IF "ZERO_PAD" \in spec.flags
        THEN LET fill_char == IF "LEFT_ADJUST" \notin spec.flags
                              THEN Ch.zero ELSE Ch.space
                 signed_prefix == sign \o prefix
             IN  signed_prefix \o fill_string(spec, magnitude_string, fill_char,
                                              Some(Len(signed_prefix)))
        ELSE fill_string(spec, sign \o prefix \o magnitude_string, Ch.space,
                         None)

-----------------------------------------------------------------------------
(* Floats.  An f64 is modelled by its decimal expansion: a finite value is *)
(* (-1)^neg * d1.d2...dn * 10^exp with d1 # 0 (zero is digits <<0>>, exp   *)
(* 0), and multiplying or dividing by ten moves exp by one.                *)

Finite(neg, digits, exp) ==
    [cat |-> "finite", neg |-> neg, digits |-> digits, exp |-> exp]
Infinity(neg) == [cat |-> "inf", neg |-> neg, digits |-> <<0>>, exp |-> 0]
NaN == [cat |-> "nan", neg |-> FALSE, digits |-> <<0>>, exp |-> 0]

PyFloat(value) == [cls |-> "float", float |-> value]

is_zero(num) == num.cat = "finite" /\ num.digits = <<0>>

RECURSIVE digits_of(_)
digits_of(n) ==
    IF n < 10 THEN <<n>> ELSE Append(digits_of(n \div 10), n % 10)

RECURSIVE value_of(_)
value_of(digits) ==
    IF digits = << >> THEN 0
    ELSE 10 * value_of(SubSeq(digits, 1, Len(digits) - 1)) + digits[Len(digits)]

digits_text(digits) == [j \in 1..Len(digits) |-> Ch.zero + digits[j]]

(* float::try_float: the value of a float, an int converted, else None.    *)
try_float(obj) ==
    IF obj.cls = "float" THEN Some(obj.float)
    ELSE IF obj.cls = "int"
         THEN LET ds == digits_of(abs(obj.int))
              IN  Some(Finite(obj.int < 0, ds, Len(ds) - 1))
    ELSE None

int_part(num) ==
    IF num.exp >= 0
    THEN Take(num.digits \o Repeat(0, num.exp + 1 - Len(num.digits)),
              num.exp + 1)
    ELSE <<0>>

frac_part(num) ==
    IF num.exp >= 0
    THEN SubSeq(num.digits, num.exp + 2, Len(num.digits))
    ELSE Repeat(0, (0 - num.exp) - 1) \o num.digits

(* float::try_bigint: truncation toward zero.                              *)
try_bigint(num) ==
    IF num.cat = "nan"
    THEN Err("ValueError", "cannot convert float NaN to integer", 0, "")
    ELSE IF num.cat = "inf"
    THEN Err("OverflowError", "cannot convert float infinity to integer", 0, "")
    ELSE Ok(IF num.neg THEN 0 - value_of(int_part(num))
            ELSE value_of(int_part(num)))

RECURSIVE increment(_)
increment(digits) ==
    IF digits = << >> THEN <<1>>
    ELSE LET front == SubSeq(digits, 1, Len(digits) - 1)
             last == digits[Len(digits)]
         IN  IF last < 9 THEN Append(front, last + 1)
             ELSE Append(increment(front), 0)

(* format!("{:.*}", precision, magnitude) of a non-negative f64: exactly   *)
(* `precision` fractional digits, rounded half to even.                    *)
fixed_text(num, precision) ==
    IF num.cat = "nan" THEN <<78, 97, 78>>
    ELSE IF num.cat = "inf" THEN <<105, 110, 102>>
    ELSE LET whole == int_part(num)
             frac == frac_part(num)
             keep == Take(frac \o Repeat(0, precision - Len(frac)), precision)
             rest == SubSeq(frac, precision + 1, Len(frac))
             numeral == whole \o keep
             round_up ==
                 /\ rest # << >>
                 /\ \/ rest[1] > 5
                    \/ /\ rest[1] = 5
                       /\ \/ \E j \in 2..Len(rest) : rest[j] # 0
                          \/ numeral[Len(numeral)] % 2 = 1
             rounded == IF round_up THEN increment(numeral) ELSE numeral
             whole_text ==
                 digits_text(SubSeq(rounded, 1, Len(rounded) - precision))
             frac_text ==
                 digits_text(SubSeq(rounded, Len(rounded) - precision + 1,
                                    Len(rounded)))
         IN  IF precision = 0 THEN whole_text
             ELSE whole_text \o <<Ch.dot>> \o frac_text

(* format!("{:+03}", exponent)                                             *)
exponent_text(exponent) ==
    LET ds == digits_text(digits_of(abs(exponent)))
    IN  <<IF exponent < 0 THEN Ch.minus ELSE Ch.plus>>
        \o Repeat(Ch.zero, 2 - Len(ds)) \o ds

Diverges == [tag |-> "Diverges"]

RECURSIVE normalize_float_loop(_, _)
normalize_float_loop(fraction, exponent) ==
    IF fraction.cat = "finite" /\ fraction.exp >= 1
    THEN normalize_float_loop([fraction EXCEPT !.exp = @ - 1], exponent + 1)
    ELSE IF fraction.cat = "finite" /\ fraction.exp < 0 /\ ~is_zero(fraction)
    THEN normalize_float_loop([fraction EXCEPT !.exp = @ + 1], exponent - 1)
    ELSE Ok([fraction |-> fraction, exponent |-> exponent])

(* For positive infinity `fraction >= 10.0` holds and `fraction /= 10.0`   *)
(* leaves it infinite: the loop has no exit.                               *)
normalize_float(num) ==
    IF num.cat = "inf" THEN Diverges ELSE normalize_float_loop(num, 0)

float_precision(spec) ==
    IF spec.precision # None /\ spec.precision[1].q = "Amount"
    THEN spec.precision[1].n
    ELSE 6

float_magnitude_string(spec, num) ==
    LET magnitude == [num EXCEPT !.neg = FALSE]
    IN  IF spec.format_type.sub = "PointDecimal"
        THEN Ok(fixed_text(magnitude, float_precision(spec)))
        ELSE IF spec.format_type.sub \in {"ExponentLowercase", "ExponentUppercase"}
        THEN Let(normalize_float(magnitude), LAMBDA norm :
                 IF norm.tag # "Ok" THEN norm
                 ELSE Ok(fixed_text(norm.out.fraction, float_precision(spec))
                         \o <<Ch.e>> \o exponent_text(norm.out.exponent)))
        ELSE Err("NotImplementedError", "Not yet implemented for %g and %G",
                 0, "")

format_float(spec, num) ==
    Let(float_magnitude_string(spec, num), LAMBDA magnitude_string :
    LET sign == IF ~num.neg THEN sign_string(spec.flags) ELSE <<Ch.minus>>
    IN  IF magnitude_string.tag # "Ok" THEN magnitude_string
        ELSE IF "ZERO_PAD" \in spec.flags
        THEN LET fill_char == IF "LEFT_ADJUST" \notin spec.flags
                              THEN Ch.zero ELSE Ch.space
             IN  Ok(sign \o fill_string(spec, magnitude_string.out, fill_char,
                                        Some(Len(sign))))
        ELSE Ok(fill_string(spec, sign \o magnitude_string.out, Ch.space,
                            None)))

-----------------------------------------------------------------------------
(* One value through one specifier.                                        *)

number_type_error(spec, obj) ==
    Err("TypeError",
        IF spec.format_type = Number("Decimal")
        THEN "%c format: a number is required, not T"
        ELSE "%c format: an integer is required, not T",
        spec.format_char, obj.cls)

(* The text of a Number conversion: an int as it is, a float truncated for *)
(* the decimal radix only.                                                 *)
format_number_object(spec, obj) ==
    IF obj.cls = "int" THEN Ok(format_number(spec, obj.int))
    ELSE IF obj.cls = "float"
         THEN IF spec.format_type = Number("Decimal")
              THEN Let(try_bigint(obj.float), LAMBDA big :
                       IF big.tag # "Ok" THEN big
                       ELSE Ok(format_number(spec, big.out)))
              ELSE number_type_error(spec, obj)
    ELSE number_type_error(spec, obj)

format_float_object(spec, obj) ==
    Let(try_float(obj), LAMBDA value :
        IF value = None
        THEN Err("TypeError",
                 "%c format: an floating point or integer is required, not T",
                 spec.format_char, obj.cls)
        ELSE format_float(spec, value[1]))

(* to_u32().and_then(char::from_u32): a Unicode scalar value or nothing.   *)
char_from_int(v) ==
    IF v >= 0 /\ v < 1114112 /\ ~(v >= 55296 /\ v <= 57343)
    THEN Some(v) ELSE None

character_of(obj) ==
    IF obj.cls = "int"
    THEN IF char_from_int(obj.int) # None
         THEN Ok(char_from_int(obj.int)[1])
         ELSE Err("OverflowError", "%c arg not in range(0x110000)", 0, "")
    ELSE IF obj.cls = "str" /\ Len(obj.str) = 1
         THEN Ok(obj.str[1])
    ELSE TypeError("%c requires int or char")

CFormatSpec_format(spec, obj) ==
    IF spec.format_type.ty = "String"
    THEN IF spec.format_type.sub = "Str"
         THEN Ok(format_string(spec, vm_to_str(obj)))
         ELSE IF spec.format_type.sub \in {"Repr", "Ascii"}
         THEN Ok(format_string(spec, vm_to_repr(obj)))
         ELSE Err("ValueError", "unsupported format character 'b' (0x62)",
                  0, "")
    ELSE IF spec.format_type.ty = "Number"
    THEN format_number_object(spec, obj)
    ELSE IF spec.format_type.ty = "Float"
    THEN format_float_object(spec, obj)
    ELSE Let(character_of(obj), LAMBDA ch :
             IF ch.tag # "Ok" THEN ch ELSE Ok(format_char(spec, ch.out)))

(* Ok(text) becomes Ok(text.into_bytes()); anything else passes through.   *)
ok_into_bytes(r) == IF r.tag = "Ok" THEN Ok(into_bytes(r.out)) ELSE r

(* try_buffer_from_object, else the __bytes__ method.                      *)
bytes_of(obj) ==
    IF obj.cls = "bytes" THEN Ok(obj.bytes)
    ELSE Err("AttributeError", "T object has no attribute __bytes__", 0,
             obj.cls)

CFormatSpec_bytes_format(spec, obj) ==
    IF spec.format_type.ty = "String"
    THEN IF spec.format_type.sub \in {"Repr", "Ascii"}
         THEN Ok(into_bytes(format_string(spec, vm_to_repr(obj))))
         ELSE Let(bytes_of(obj), LAMBDA bytes :
                  IF bytes.tag # "Ok" THEN bytes
                  ELSE format_bytes(spec, bytes.out))
    ELSE IF spec.format_type.ty = "Number"
    THEN ok_into_bytes(format_number_object(spec, obj))
    ELSE IF spec.format_type.ty = "Float"
    THEN ok_into_bytes(format_float_object(spec, obj))
    ELSE Let(character_of(obj), LAMBDA ch :
             IF ch.tag # "Ok" THEN ch
             ELSE Ok(into_bytes(format_char(spec, ch.out))))

-----------------------------------------------------------------------------
(* Binder / driver.                                                        *)

(* values.get_item(key, vm): a dict looks the key up, a tuple rejects a    *)
(* str index.                                                              *)
get_item(values, key) ==
    IF values.cls = "dict"
    THEN IF key \in DOMAIN values.map THEN Ok(values.map[key])
         ELSE Err("KeyError", "key", 0, "")
    ELSE TypeError("tuple indices must be integers or slices, not str")

(* int::try_to_primitive::<isize>(i, vm)? as usize                         *)
int_to_usize(i) ==
    IF i > IsizeMax \/ i < IsizeMin
    THEN Err("OverflowError", "Python int too large to convert to Rust isize",
             0, "")
    ELSE Ok(as_usize(i))

(* What a format call leaves behind: self.parts, the returned PyResult,    *)
(* mapping_required, the cursor, and the tuple elements it took.           *)
Outcome(ps, res, mapping_required, tuple_index, taken) ==
    [parts |-> ps, res |-> res, mode |-> mapping_required,
     tuple_index |-> tuple_index, log |-> taken]

(* What binding one specifier yields: the specifier with the quantities it *)
(* resolved, Ok(obj) or the error, the cursor, the elements it took.       *)
Bound(spec, res, tuple_index, taken) ==
    [spec |-> spec, res |-> res, tuple_index |-> tuple_index, log |-> taken]

Taken(part, index, role) == [part |-> part, index |-> index, role |-> role]

(* Variant: a resolved '*' does not advance tuple_index.                   *)
CFormatString_try_update_quantity_keeping_index(elements, e, q, tuple_index) ==
    IF q # Some(FromValuesTuple)
    THEN [res |-> Ok(tuple_index), q |-> q, e |-> e]
    ELSE IF e > Len(elements)
    THEN [res |-> TypeError("not enough arguments for format string"),
          q |-> q, e |-> e]
    ELSE IF ~isinstance(elements[e], "int")
    THEN [res |-> TypeError("* wants int"), q |-> q, e |-> e + 1]
    ELSE Let(int_to_usize(elements[e].int), LAMBDA i :
         IF i.tag # "Ok"
         THEN [res |-> i, q |-> q, e |-> e + 1]
         ELSE [res |-> Ok(tuple_index), q |-> Some(Amount(i.out)),
               e |-> e + 1])

(* Variant: a fixed amount is resolved again, like the marker.             *)
CFormatString_try_update_quantity_overwriting(elements, e, q, tuple_index) ==
    IF q = None
    THEN [res |-> Ok(tuple_index), q |-> q, e |-> e]
    ELSE IF e > Len(elements)
    THEN [res |-> TypeError("not enough arguments for format string"),
          q |-> q, e |-> e]
    ELSE IF ~isinstance(elements[e], "int")
    THEN [res |-> TypeError("* wants int"), q |-> q, e |-> e + 1]
    ELSE Let(int_to_usize(elements[e].int), LAMBDA i :
         IF i.tag # "Ok"
         THEN [res |-> i, q |-> q, e |-> e + 1]
         ELSE [res |-> Ok(tuple_index + 1), q |-> Some(Amount(i.out)),
               e |-> e + 1])

(* `elements` is tuple[..].skip(tuple_index) advanced by next(): e is the *)
(* 1-based position in the tuple of the element next() returns.            *)
CFormatString_try_update_quantity_from_tuple(elements, e, q, tuple_index) ==
    IF q # Some(FromValuesTuple)
    THEN [res |-> Ok(tuple_index), q |-> q, e |-> e]
    ELSE IF e > Len(elements)
    THEN [res |-> TypeError("not enough arguments for format string"),
          q |-> q, e |-> e]
    ELSE IF ~isinstance(elements[e], "int")
    THEN [res |-> TypeError("* wants int"), q |-> q, e |-> e + 1]
    ELSE Let(int_to_usize(elements[e].int), LAMBDA i :
         IF i.tag # "Ok"
         THEN [res |-> i, q |-> q, e |-> e + 1]
         ELSE [res |-> Ok(tuple_index + 1), q |-> Some(Amount(i.out)),
               e |-> e + 1])

(* Variant: the precision is resolved before the width.                    *)
CFormatString_bind_precision_first(j, format_spec, values, tuple_index) ==
    IF format_spec.mapping_key # None
    THEN Bound(format_spec, get_item(values, format_spec.mapping_key[1]),
               tuple_index, << >>)
    ELSE
    Let(CFormatString_try_update_quantity_from_tuple(
            values.items, tuple_index + 1, format_spec.precision,
            tuple_index), LAMBDA p :
    LET spec1 == [format_spec EXCEPT !.precision = p.q]
        log1 == IF p.e > tuple_index + 1
                THEN <<Taken(j, tuple_index, "precision")>> ELSE << >>
    IN  IF p.res.tag # "Ok"
        THEN Bound(spec1, p.res, tuple_index, log1)
        ELSE
    Let(CFormatString_try_update_quantity_from_tuple(
            values.items, p.e, spec1.min_field_width, p.res.out), LAMBDA w :
    LET spec2 == [spec1 EXCEPT !.min_field_width = w.q]
        log2 == IF w.e > p.e
                THEN Append(log1, Taken(j, p.e - 1, "width"))
                ELSE log1
    IN  IF w.res.tag # "Ok"
        THEN Bound(spec2, w.res, p.res.out, log2)
        ELSE IF w.e > Len(values.items)
        THEN Bound(spec2,
                   TypeError("not enough arguments for format string"),
                   w.res.out, log2)
        ELSE Bound(spec2, Ok(values.items[w.e]), w.res.out + 1,
                   Append(log2, Taken(j, w.e - 1, "value")))))

(* The object one specifier renders: by key, or the width, the precision   *)
(* and the value from the tuple, in this order.  On any failure the `?`    *)
(* returns with the quantities resolved so far already stored.             *)
CFormatString_bind(j, format_spec, values, tuple_index) ==
    IF format_spec.mapping_key # None
    THEN Bound(format_spec, get_item(values, format_spec.mapping_key[1]),
               tuple_index, << >>)
    ELSE
    Let(CFormatString_try_update_quantity_from_tuple(
            values.items, tuple_index + 1, format_spec.min_field_width,
            tuple_index), LAMBDA w :
    LET spec1 == [format_spec EXCEPT !.min_field_width = w.q]
        log1 == IF w.e > tuple_index + 1
                THEN <<Taken(j, tuple_index, "width")>> ELSE << >>
    IN  IF w.res.tag # "Ok"
        THEN Bound(spec1, w.res, tuple_index, log1)
        ELSE
    Let(CFormatString_try_update_quantity_from_tuple(
            values.items, w.e, spec1.precision, w.res.out), LAMBDA p :
    LET spec2 == [spec1 EXCEPT !.precision = p.q]
        log2 == IF p.e > w.e
                THEN Append(log1, Taken(j, w.e - 1, "precision"))
                ELSE log1
    IN  IF p.res.tag # "Ok"
        THEN Bound(spec2, p.res, w.res.out, log2)
        ELSE IF p.e > Len(values.items)
        THEN Bound(spec2,
                   TypeError("not enough arguments for format string"),
                   p.res.out, log2)
        ELSE Bound(spec2, Ok(values.items[p.e]), p.res.out + 1,
                   Append(log2, Taken(j, p.e - 1, "value")))))

(* The loop over self.parts from part j on.                                *)
RECURSIVE CFormatString_format_parts(_, _, _, _, _, _)
CFormatString_format_parts(ps, values, j, tuple_index, final, taken) ==
    IF j > Len(ps)
    THEN Outcome(ps, Ok(final), FALSE, tuple_index, taken)
    ELSE IF ps[j][2].part = "Literal"
    THEN CFormatString_format_parts(ps, values, j + 1, tuple_index,
                          final \o ps[j][2].text, taken)
    ELSE
    Let(CFormatString_bind(j, ps[j][2].spec, values, tuple_index), LAMBDA b :
    LET ps1 == [ps EXCEPT ![j] = <<ps[j][1], Spec_(b.spec)>>]
    IN  IF b.res.tag # "Ok"
        THEN Outcome(ps1, b.res, FALSE, b.tuple_index, taken \o b.log)
        ELSE
    Let(CFormatSpec_format(b.spec, b.res.out), LAMBDA r :
    IF r.tag # "Ok"
    THEN Outcome(ps1, r, FALSE, b.tuple_index, taken \o b.log)
    ELSE CFormatString_format_parts(ps1, values, j + 1, b.tuple_index,
                          final \o r.out, taken \o b.log)))

CFormatString_num_specifiers(ps) ==
    Cardinality({j \in 1..Len(ps) : is_specifier(ps[j][2])})

(* Variant: one keyed specifier is enough to bind by name.                 *)
CFormatString_mapping_required_by_any_key(ps) ==
    \E j \in 1..Len(ps) : has_key(ps[j][2])

CFormatString_mapping_required(ps) ==
    /\ \E j \in 1..Len(ps) : has_key(ps[j][2])
    /\ \A j \in 1..Len(ps) : is_specifier(ps[j][2]) => has_key(ps[j][2])

(* `values` in positional mode: the tuple, or a new one-element tuple      *)
(* around an args object that is no tuple.                                 *)
CFormatString_values(values_obj) ==
    IF ~isinstance(values_obj, "tuple")
    THEN PyTuple(<<values_obj>>)
    ELSE values_obj

(* Variant: a mapping is not exempt from the exhaustion check.             *)
CFormatString_check_converted_mappings_too(walk, mapping_required, values, values_obj) ==
    IF walk.res.tag # "Ok" THEN walk
    ELSE IF /\ ~mapping_required
            /\ walk.tuple_index + 1 <= Len(values.items)
         THEN [walk EXCEPT !.res = TypeError(
                   "not all arguments converted during string formatting")]
         ELSE walk

(* The check that all arguments were converted, after a completed walk.    *)
CFormatString_check_converted(walk, mapping_required, values, values_obj) ==
    IF walk.res.tag # "Ok" THEN walk
    ELSE IF /\ ~mapping_required
            /\ walk.tuple_index + 1 <= Len(values.items)
            /\ ~isinstance(values_obj, "dict")
         THEN [walk EXCEPT !.res = TypeError(
                   "not all arguments converted during string formatting")]
         ELSE walk

CFormatString_format(ps, values_obj) ==
    IF CFormatString_mapping_required(ps)
    THEN IF ~isinstance(values_obj, "dict")
         THEN Outcome(ps, TypeError("format requires a mapping"), TRUE, 0,
                      << >>)
         ELSE [CFormatString_format_parts(ps, values_obj, 1, 0, << >>, << >>)
                   EXCEPT !.mode = TRUE]
    ELSE IF /\ CFormatString_num_specifiers(ps) = 0
            /\ ~(isinstance(values_obj, "tuple") /\ values_obj.items = << >>)
            /\ ~isinstance(values_obj, "dict")
         THEN Outcome(ps, TypeError(
                "not all arguments converted during string formatting"),
                FALSE, 0, << >>)
         ELSE CFormatString_check_converted(
                  CFormatString_format_parts(ps, CFormatString_values(values_obj), 1, 0, << >>,
                                   << >>),
                  FALSE, CFormatString_values(values_obj), values_obj)

(* `elements` is tuple[..].skip(tuple_index) advanced by next(): e is the *)
(* 1-based position in the tuple of the element next() returns.            *)
CFormatBytes_try_update_quantity_from_tuple(elements, e, q, tuple_index) ==
    IF q # Some(FromValuesTuple)
    THEN [res |-> Ok(tuple_index), q |-> q, e |-> e]
    ELSE IF e > Len(elements)
    THEN [res |-> TypeError("not enough arguments for format string"),
          q |-> q, e |-> e]
    ELSE IF ~isinstance(elements[e], "int")
    THEN [res |-> TypeError("* wants int"), q |-> q, e |-> e + 1]
    ELSE Let(int_to_usize(elements[e].int), LAMBDA i :
         IF i.tag # "Ok"
         THEN [res |-> i, q |-> q, e |-> e + 1]
         ELSE [res |-> Ok(tuple_index + 1), q |-> Some(Amount(i.out)),
               e |-> e + 1])

(* The object one specifier renders: by key, or the width, the precision   *)
(* and the value from the tuple, in this order.  On any failure the `?`    *)
(* returns with the quantities resolved so far already stored.             *)
CFormatBytes_bind(j, format_spec, values, tuple_index) ==
    IF format_spec.mapping_key # None
    THEN Bound(format_spec, get_item(values, format_spec.mapping_key[1]),
               tuple_index, << >>)
    ELSE
    Let(CFormatBytes_try_update_quantity_from_tuple(
            values.items, tuple_index + 1, format_spec.min_field_width,
            tuple_index), LAMBDA w :
    LET spec1 == [format_spec EXCEPT !.min_field_width = w.q]
        log1 == IF w.e > tuple_index + 1
                THEN <<Taken(j, tuple_index, "width")>> ELSE << >>
    IN  IF w.res.tag # "Ok"
        THEN Bound(spec1, w.res, tuple_index, log1)
        ELSE
    Let(CFormatBytes_try_update_quantity_from_tuple(
            values.items, w.e, spec1.precision, w.res.out), LAMBDA p :
    LET spec2 == [spec1 EXCEPT !.precision = p.q]
        log2 == IF p.e > w.e
                THEN Append(log1, Taken(j, w.e - 1, "precision"))
                ELSE log1
    IN  IF p.res.tag # "Ok"
        THEN Bound(spec2, p.res, w.res.out, log2)
        ELSE IF p.e > Len(values.items)
        THEN Bound(spec2,
                   TypeError("not enough arguments for format string"),
                   p.res.out, log2)
        ELSE Bound(spec2, Ok(values.items[p.e]), p.res.out + 1,
                   Append(log2, Taken(j, p.e - 1, "value")))))

(* The loop over self.parts from part j on.                                *)
RECURSIVE CFormatBytes_format_parts(_, _, _, _, _, _)
CFormatBytes_format_parts(ps, values, j, tuple_index, final, taken) ==
    IF j > Len(ps)
    THEN Outcome(ps, Ok(final), FALSE, tuple_index, taken)
    ELSE IF ps[j][2].part = "Literal"
    THEN CFormatBytes_format_parts(ps, values, j + 1, tuple_index,
                          final \o into_bytes(ps[j][2].text), taken)
    ELSE
    Let(CFormatBytes_bind(j, ps[j][2].spec, values, tuple_index), LAMBDA b :
    LET ps1 == [ps EXCEPT ![j] = <<ps[j][1], Spec_(b.spec)>>]
    IN  IF b.res.tag # "Ok"
        THEN Outcome(ps1, b.res, FALSE, b.tuple_index, taken \o b.log)
        ELSE
    Let(CFormatSpec_bytes_format(b.spec, b.res.out), LAMBDA r :
    IF r.tag # "Ok"
    THEN Outcome(ps1, r, FALSE, b.tuple_index, taken \o b.log)
    ELSE CFormatBytes_format_parts(ps1, values, j + 1, b.tuple_index,
                          final \o r.out, taken \o b.log)))

CFormatBytes_num_specifiers(ps) ==
    Cardinality({j \in 1..Len(ps) : is_specifier(ps[j][2])})

CFormatBytes_mapping_required(ps) ==
    /\ \E j \in 1..Len(ps) : has_key(ps[j][2])
    /\ \A j \in 1..Len(ps) : is_specifier(ps[j][2]) => has_key(ps[j][2])

(* `values` in positional mode: the tuple, or a new one-element tuple      *)
(* around an args object that is no tuple.                                 *)
CFormatBytes_values(values_obj) ==
    IF ~isinstance(values_obj, "tuple")
    THEN PyTuple(<<values_obj>>)
    ELSE values_obj

(* Variant: the bytes driver does not check that the tuple was used up.    *)
CFormatBytes_check_converted_never(walk, mapping_required, values, values_obj) ==
    walk

(* The check that all arguments were converted, after a completed walk.    *)
CFormatBytes_check_converted(walk, mapping_required, values, values_obj) ==
    IF walk.res.tag # "Ok" THEN walk
    ELSE IF /\ ~mapping_required
            /\ walk.tuple_index + 1 <= Len(values.items)
            /\ ~isinstance(values_obj, "dict")
         THEN [walk EXCEPT !.res = TypeError(
                   "not all arguments converted during string formatting")]
         ELSE walk

CFormatBytes_format(ps, values_obj) ==
    IF CFormatBytes_mapping_required(ps)
    THEN IF ~isinstance(values_obj, "dict")
         THEN Outcome(ps, TypeError("format requires a mapping"), TRUE, 0,
                      << >>)
         ELSE [CFormatBytes_format_parts(ps, values_obj, 1, 0, << >>, << >>)
                   EXCEPT !.mode = TRUE]
    ELSE IF /\ CFormatBytes_num_specifiers(ps) = 0
            /\ ~(isinstance(values_obj, "tuple") /\ values_obj.items = << >>)
            /\ ~isinstance(values_obj, "dict")
         THEN Outcome(ps, TypeError(
                "not all arguments converted during string formatting"),
                FALSE, 0, << >>)
         ELSE CFormatBytes_check_converted(
                  CFormatBytes_format_parts(ps, CFormatBytes_values(values_obj), 1, 0, << >>,
                                   << >>),
                  FALSE, CFormatBytes_values(values_obj), values_obj)

-----------------------------------------------------------------------------
(* The template object: parsed once, formatted repeatedly.                 *)

MaxPieces == 2
MaxArgs == 3
MaxCalls == 2

(* Template sources are concatenations of at most MaxPieces of these       *)
(* pieces: aé (bytes 0x61 0xE9), %d, %*s, %.*s, %*.*d and %(k)*d.          *)
Pieces ==
    { <<Ch.a, 233>>,
      <<Ch.percent, Ch.d>>,
      <<Ch.percent, Ch.star, Ch.s>>,
      <<Ch.percent, Ch.dot, Ch.star, Ch.s>>,
      <<Ch.percent, Ch.star, Ch.dot, Ch.star, Ch.d>>,
      <<Ch.percent, Ch.lparen, Ch.k, Ch.rparen, Ch.star, Ch.d>> }

RECURSIVE Concats(_)
Concats(n) ==
    IF n = 0 THEN {<< >>}
    ELSE LET shorter == Concats(n - 1)
         IN  shorter \cup {s \o p : s \in shorter, p \in Pieces}

Sources == Concats(MaxPieces)

(* Args objects: tuples of at most MaxArgs elements that are the int 2 or  *)
(* a three-character str (for bytes templates, a three-byte bytes), the    *)
(* tuple (-1, 2), a bare int, a bare str or bytes, the empty dict and the  *)
(* dict {"k": 2}.                                                          *)
Blob(k) ==
    IF k = "str" THEN PyStr(<<Ch.b, Ch.c, Ch.d>>) ELSE PyBytes(<<66, 67, 68>>)

Elements(k) == {PyInt(2), Blob(k)}

Tuples(k) == UNION {[1..m -> Elements(k)] : m \in 0..MaxArgs}

Dicts == {PyDict(<< >>), PyDict([key \in {<<Ch.k>>} |-> PyInt(2)])}

ArgObjects(k) ==
    {PyTuple(t) : t \in Tuples(k)}
    \cup {PyTuple(<<PyInt(0 - 1), PyInt(2)>>), PyInt(2), Blob(k)}
    \cup Dicts

NoResult == [tag |-> "None"]
NoSpec == [ty |-> "None"]

Idle ==
    /\ parsed = None
    /\ parts = << >>
    /\ before = << >>
    /\ calls = 0
    /\ args = PyTuple(<< >>)
    /\ result = NoResult
    /\ mode = FALSE
    /\ log = << >>

RenderIdle ==
    /\ rspec = NoSpec
    /\ rarg = PyInt(0)
    /\ rout = NoResult
    /\ rop = "none"

Init ==
    /\ kind = "str"
    /\ source \in Sources
    /\ Idle
    /\ RenderIdle

BytesInit ==
    /\ kind = "bytes"
    /\ source \in Sources
    /\ Idle
    /\ RenderIdle

Constructed(r) ==
    /\ parsed' = Some(r)
    /\ parts' = IF r.ok THEN r.parts ELSE << >>
    /\ UNCHANGED <<kind, source, before, calls, args, result, mode, log,
                   rspec, rarg, rout, rop>>

(* text.parse::<CFormatString>()                                           *)
FromStr ==
    /\ kind = "str"
    /\ parsed = None
    /\ Constructed(CFormatString_from_str(source))

(* CFormatBytes::parse_from_bytes(bytes)                                   *)
ParseFromBytes ==
    /\ kind = "bytes"
    /\ parsed = None
    /\ Constructed(CFormatBytes_parse_from_bytes(source))

Formatted(values_obj, o) ==
    /\ parts' = o.parts
    /\ before' = parts
    /\ args' = values_obj
    /\ result' = o.res
    /\ mode' = o.mode
    /\ log' = o.log
    /\ calls' = calls + 1
    /\ UNCHANGED <<kind, source, parsed, rspec, rarg, rout, rop>>

(* CFormatString::format(&mut self, vm, values_obj)                        *)
FormatString ==
    /\ kind = "str"
    /\ parsed # None
    /\ parsed[1].ok
    /\ calls < MaxCalls
    /\ \E values_obj \in ArgObjects(kind) :
           Formatted(values_obj, CFormatString_format(parts, values_obj))

(* CFormatBytes::format(&mut self, vm, values_obj)                         *)
FormatBytes ==
    /\ kind = "bytes"
    /\ parsed # None
    /\ parsed[1].ok
    /\ calls < MaxCalls
    /\ \E values_obj \in ArgObjects(kind) :
           Formatted(values_obj, CFormatBytes_format(parts, values_obj))

Next == FromStr \/ FormatString

Spec == Init /\ [][Next]_vars

BytesNext == ParseFromBytes \/ FormatBytes

BytesSpec == BytesInit /\ [][BytesNext]_vars

-----------------------------------------------------------------------------
(* The renderer on its own: one specifier record, one value.               *)

MaxWidth == 5
MaxPrecision == 2
MaxInt == 12
MaxText == 3

Quantities(n) == {None} \cup {Some(Amount(w)) : w \in 0..n}

NumberTypes ==
    {Number("Decimal"), Number("Octal"), Number("HexLowercase"),
     Number("HexUppercase")}

format_char_of(format_type) ==
    IF format_type = Number("Decimal") THEN Ch.d
    ELSE IF format_type = Number("Octal") THEN Ch.o
    ELSE IF format_type = Number("HexLowercase") THEN Ch.x
    ELSE IF format_type = Number("HexUppercase") THEN Ch.X
    ELSE IF format_type = Character THEN Ch.c
    ELSE Ch.s

(* Specifier records as CFormatSpec::parse builds them for %<flags><width> *)
(* [.<precision>]<d|o|x|X|s|c>, and %*<d|s> before the width is resolved.  *)
RenderSpecs ==
    {CFormatSpec(None, flags, width, precision, format_type,
                 format_char_of(format_type)) :
        flags \in SUBSET CConversionFlags,
        width \in Quantities(MaxWidth) \cup {Some(FromValuesTuple)},
        precision \in Quantities(MaxPrecision),
        format_type \in NumberTypes \cup {String("Str"), Character}}

Texts == UNION {[1..m -> {Ch.b, 233}] : m \in 0..MaxText}

RenderArgs(format_type) ==
    IF format_type.ty = "Number"
    THEN {PyInt(n) : n \in (0 - MaxInt)..MaxInt}
    ELSE IF format_type.ty = "String"
    THEN {PyStr(text) : text \in Texts}
    ELSE {PyStr(<<Ch.b>>), PyStr(<<233>>)}

RenderInit ==
    /\ kind = "str"
    /\ source = << >>
    /\ Idle
    /\ rspec \in RenderSpecs
    /\ rarg \in RenderArgs(rspec.format_type)
    /\ rout = NoResult
    /\ rop = "none"

Rendered(op, out) ==
    /\ rop = "none"
    /\ rop' = op
    /\ rout' = Ok(out)
    /\ UNCHANGED <<kind, source, parsed, parts, before, calls, args, result,
                   mode, log, rspec, rarg>>

(* spec.format_number(&BigInt::from(n))                                    *)
FormatNumber ==
    /\ rspec.format_type.ty = "Number"
    /\ Rendered("format_number", format_number(rspec, rarg.int))

(* spec.format_string(text)                                                *)
FormatStringValue ==
    /\ rspec.format_type.ty = "String"
    /\ Rendered("format_string", format_string(rspec, rarg.str))

(* spec.format_char(ch)                                                    *)
FormatChar ==
    /\ rspec.format_type.ty = "Character"
    /\ Rendered("format_char", format_char(rspec, rarg.str[1]))

RenderNext == FormatNumber \/ FormatStringValue \/ FormatChar

RenderSpec == RenderInit /\ [][RenderNext]_vars

-----------------------------------------------------------------------------
(* Properties of the template drivers (Spec, BytesSpec).                   *)

Range(seq) == {seq[i] : i \in 1..Len(seq)}

EmptyTuple == PyTuple(<< >>)

NotEnough == TypeError("not enough arguments for format string")

NotAll == TypeError("not all arguments converted during string formatting")

WantsInt == TypeError("* wants int")

RequiresMapping == TypeError("format requires a mapping")

SpecifierIndexes(ps) == {j \in 1..Len(ps) : ps[j][2].part = "Spec"}

KeyedIndexes(ps) ==
    {j \in SpecifierIndexes(ps) : ps[j][2].spec.mapping_key # None}

HasStar(ps) ==
    \E j \in SpecifierIndexes(ps) :
        \/ ps[j][2].spec.min_field_width = Some(FromValuesTuple)
        \/ ps[j][2].spec.precision = Some(FromValuesTuple)

(* The argument sequence of a positional call: the tuple's elements, or    *)
(* the args object alone.                                                  *)
Normalized(values_obj) ==
    IF isinstance(values_obj, "tuple") THEN values_obj.items
    ELSE <<values_obj>>

(* What a specifier asks of the sequence: one element per '*', one value.  *)
Roles(spec) ==
    (IF spec.min_field_width = Some(FromValuesTuple)
     THEN <<"width">> ELSE << >>)
    \o (IF spec.precision = Some(FromValuesTuple)
        THEN <<"precision">> ELSE << >>)
    \o <<"value">>

(* The demands of the unkeyed specifiers of parts j.. in template order.   *)
RECURSIVE Demands(_, _)
Demands(ps, j) ==
    IF j > Len(ps) THEN << >>
    ELSE IF j \in SpecifierIndexes(ps) \ KeyedIndexes(ps)
    THEN [i \in 1..Len(Roles(ps[j][2].spec)) |->
             [part |-> j, role |-> Roles(ps[j][2].spec)[i]]]
         \o Demands(ps, j + 1)
    ELSE Demands(ps, j + 1)

(* Whether the element is accepted where the demand consumes it: an int    *)
(* under '*', a value the conversion renders otherwise.                    *)
Accepted(ps, demand, element) ==
    IF demand.role # "value" THEN isinstance(element, "int")
    ELSE CFormatSpec_format(ps[demand.part][2].spec, element).tag = "Ok"

(* C1: a format call on a text template that has a '*' quantity has the    *)
(* outcome, and takes as many arguments, as the same call on a fresh parse *)
(* of the same source, whatever calls were made on the template before.    *)
C1_SecondCallAsFresh ==
    (kind = "str" /\ calls >= 1 /\ HasStar(parsed[1].parts)) =>
        \A fresh \in {CFormatString_format(parsed[1].parts, args)} :
            /\ result = fresh.res
            /\ Len(log) = Len(fresh.log)

(* C2: a text template whose source has no '%' parses to at most one part, *)
(* a Literal, and formatted with the empty tuple or with a mapping renders *)
(* exactly its source text.                                                *)
C2_LiteralRoundTrip ==
    (kind = "str" /\ Ch.percent \notin Range(source) /\ parsed # None) =>
        /\ parsed[1].ok
        /\ Len(parts) <= 1
        /\ \A j \in 1..Len(parts) : parts[j][2].part = "Literal"
        /\ (calls >= 1 /\ (args = EmptyTuple \/ isinstance(args, "dict")))
               => result = Ok(source)

C2_Witness ==
    /\ kind = "str"
    /\ Ch.percent \notin Range(source)
    /\ Len(parts) = 1
    /\ calls >= 1
    /\ isinstance(args, "dict")
    /\ result = Ok(source)

(* C3: a byte template whose source has no '%' byte, parsed with           *)
(* parse_from_bytes and formatted with the empty tuple or with a mapping,  *)
(* renders exactly its source bytes, whatever their values.                *)
C3_BytesRoundTrip ==
    (/\ kind = "bytes"
     /\ Ch.percent \notin Range(source)
     /\ calls >= 1
     /\ (args = EmptyTuple \/ isinstance(args, "dict")))
        => result = Ok(source)

C6_BindingMode ==
    calls >= 1 =>
        /\ mode = (/\ KeyedIndexes(before) # {}
                   /\ KeyedIndexes(before) = SpecifierIndexes(before))
        /\ (mode /\ ~isinstance(args, "dict"))
               => (result = RequiresMapping /\ parts = before /\ log = << >>)
        /\ ~mode => result # RequiresMapping
        /\ (~mode /\ result.tag = "Ok")
               => Len(log) = Len(Demands(before, 1))

C6_Witness ==
    /\ calls >= 1
    /\ mode
    /\ HasStar(before)
    /\ isinstance(args, "tuple")
    /\ args # EmptyTuple
    /\ result = RequiresMapping

(* C7 as stated: with a mapping as args the call never fails with 'not all *)
(* arguments converted', a literal-only template succeeds, and a           *)
(* positional call takes the mapping as the value of the first unkeyed     *)
(* specifier.                                                              *)
C7_TakenAsValue ==
    (calls >= 1 /\ isinstance(args, "dict")) =>
        /\ result # NotAll
        /\ SpecifierIndexes(before) = {} => result.tag = "Ok"
        /\ ~mode => \A demands \in {Demands(before, 1)} :
               /\ Len(log) <= 1
               /\ \A i \in 1..Len(log) :
                      log[i] = Taken(demands[1].part, 0, "value")

(* C7: with a mapping as args the call never fails with 'not all arguments *)
(* converted', a literal-only template succeeds, and a positional call     *)
(* takes the mapping, once, as the first element the first unkeyed         *)
(* specifier asks for: its '*' width, else its '*' precision, else its     *)
(* value; it does take it when no keyed specifier comes first.             *)
C7_MappingExemption ==
    (calls >= 1 /\ isinstance(args, "dict")) =>
        /\ result # NotAll
        /\ SpecifierIndexes(before) = {} => result.tag = "Ok"
        /\ ~mode => \A demands \in {Demands(before, 1)} :
               /\ Len(log) <= 1
               /\ \A i \in 1..Len(log) :
                      log[i] = Taken(demands[1].part, 0, demands[1].role)
               /\ (/\ demands # << >>
                   /\ \A j \in KeyedIndexes(before) : j > demands[1].part)
                      => Len(log) = 1

C7_Witness ==
    /\ calls >= 1
    /\ isinstance(args, "dict")
    /\ ~mode
    /\ Len(log) = 1
    /\ log[1].role = "width"
    /\ result = WantsInt

(* C8: a positional call takes the elements at positions 0, 1, 2, ... one  *)
(* by one, each for the next demand of the unkeyed specifiers in template  *)
(* order, a specifier's demands being its '*' width, its '*' precision,    *)
(* its value; an element that is no int in a '*' position ends the call    *)
(* with '* wants int'; a call that succeeds took every demand.             *)
C8_ConsumptionOrder ==
    (calls >= 1 /\ ~mode) =>
        \A demands \in {Demands(before, 1)}, vals \in {Normalized(args)} :
            /\ Len(log) <= Min(Len(demands), Len(vals))
            /\ \A i \in 1..Len(log) :
                   /\ log[i] = Taken(demands[i].part, i - 1, demands[i].role)
                   /\ (log[i].role # "value" /\ ~isinstance(vals[i], "int"))
                          => (result = WantsInt /\ i = Len(log))
            /\ result.tag = "Ok" => Len(log) = Len(demands)

C8_Witness ==
    /\ calls >= 1
    /\ ~mode
    /\ Len(log) = 3
    /\ log[1] = Taken(1, 0, "width")
    /\ log[2] = Taken(1, 1, "precision")
    /\ log[3] = Taken(1, 2, "value")
    /\ result.tag = "Ok"

-----------------------------------------------------------------------------
(* Properties of the renderer (RenderSpec).                                *)

FixedWidth(spec) ==
    spec.min_field_width # None /\ spec.min_field_width[1].q = "Amount"

Drop(seq, n) == SubSeq(seq, Min(n, Len(seq)) + 1, Len(seq))

ExpectedSign(flags, num) ==
    IF num < 0 THEN <<Ch.minus>>
    ELSE IF "SIGN_CHAR" \in flags THEN <<Ch.plus>>
    ELSE IF "BLANK_SIGN" \in flags THEN <<Ch.space>>
    ELSE << >>

ExpectedPrefix(spec) ==
    IF "ALTERNATE_FORM" \notin spec.flags \/ spec.format_type = Number("Decimal")
    THEN << >>
    ELSE <<Ch.zero, spec.format_char>>

Digits(spec, num) == number_magnitude_string(spec, abs(num))

(* The unpadded content of the rendering the state holds.                  *)
Content ==
    IF rop = "format_number"
    THEN ExpectedSign(rspec.flags, rarg.int) \o ExpectedPrefix(rspec)
         \o Digits(rspec, rarg.int)
    ELSE IF rop = "format_char" THEN <<rarg.str[1]>>
    ELSE IF rspec.precision # None /\ rspec.precision[1].q = "Amount"
    THEN Take(rarg.str, rspec.precision[1].n)
    ELSE rarg.str

(* C4: a string, character or integer rendering under a fixed width w,     *)
(* with content of n characters, has max(n, w) characters: the content,    *)
(* with max(0, w - n) fill characters put in at one place; without a       *)
(* fixed width it is the content.                                          *)
C4_WidthInvariant ==
    rop # "none" =>
        \A content \in {Content} :
            IF FixedWidth(rspec)
            THEN /\ Len(rout.out) =
                        Max(Len(content), rspec.min_field_width[1].n)
                 /\ \E cut \in 0..Len(content),
                       fill_char \in {Ch.space, Ch.zero} :
                        rout.out =
                            Take(content, cut)
                            \o Repeat(fill_char,
                                      Max(0, rspec.min_field_width[1].n
                                             - Len(content)))
                            \o Drop(content, cut)
            ELSE rout.out = content

C4_Witness ==
    /\ rop = "format_number"
    /\ FixedWidth(rspec)
    /\ rspec.flags = {"ALTERNATE_FORM", "SIGN_CHAR"}
    /\ rspec.min_field_width[1].n = Len(Content) + 1
    /\ Len(rout.out) = Len(Content) + 1

(* C9: an integer rendering under a fixed width is sign, radix prefix,     *)
(* '0' fill, digits when zero-pad is set and left-adjust is not; otherwise *)
(* the fill is spaces outside sign, prefix and digits: after them when     *)
(* left-adjust is set, before them when it is not.                         *)
C9_NumberFillPlacement ==
    (rop = "format_number" /\ FixedWidth(rspec)) =>
        \A head \in {number_sign_string(rspec, rarg.int)
                     \o number_prefix(rspec)},
           digits \in {Digits(rspec, rarg.int)} :
            \A fill \in {Max(0, rspec.min_field_width[1].n
                                - Len(head) - Len(digits))} :
                IF "ZERO_PAD" \in rspec.flags /\ "LEFT_ADJUST" \notin rspec.flags
                THEN rout.out = head \o Repeat(Ch.zero, fill) \o digits
                ELSE IF "LEFT_ADJUST" \in rspec.flags
                THEN rout.out = head \o digits \o Repeat(Ch.space, fill)
                ELSE rout.out = Repeat(Ch.space, fill) \o head \o digits

C9_Witness ==
    /\ rop = "format_number"
    /\ FixedWidth(rspec)
    /\ rspec.flags = {"ZERO_PAD", "LEFT_ADJUST", "SIGN_CHAR"}
    /\ rspec.min_field_width[1].n = 5
    /\ rarg.int = 3
    /\ rout.out = <<Ch.plus, 51, Ch.space, Ch.space, Ch.space>>

(* C10: an integer rendering carries exactly one sign string, in front of  *)
(* prefix and digits: '-' for a negative value whatever the flags,         *)
(* otherwise '+' under force-sign, otherwise a space under blank-sign,     *)
(* otherwise nothing; zero counts as non-negative.                         *)
C10_SignSelection ==
    rop = "format_number" =>
        \A head \in {ExpectedSign(rspec.flags, rarg.int)
                     \o ExpectedPrefix(rspec)},
           digits \in {Digits(rspec, rarg.int)} :
            \A fill \in {IF FixedWidth(rspec)
                         THEN Max(0, rspec.min_field_width[1].n
                                     - Len(head) - Len(digits))
                         ELSE 0} :
                rout.out \in {head \o Repeat(Ch.zero, fill) \o digits,
                              head \o digits \o Repeat(Ch.space, fill),
                              Repeat(Ch.space, fill) \o head \o digits}

C10_Witness ==
    /\ rop = "format_number"
    /\ rspec.flags = {"SIGN_CHAR", "BLANK_SIGN"}
    /\ rarg.int = 0
    /\ rspec.min_field_width = None
    /\ rout.out = <<Ch.plus, Ch.zero>>

-----------------------------------------------------------------------------
(* The parser on its own: one source text, parsed once.                    *)

MaxLen == 4
MaxKey == 4
MaxDigits == 3

Strings(alphabet, n) == UNION {[1..m -> alphabet] : m \in 0..n}

(* Literal text, '%%' pairs, specifiers with flags, width and precision,   *)
(* complete or cut short.                                                  *)
PlainSources == Strings({Ch.percent, Ch.k, Ch.d, 49, Ch.minus, Ch.dot}, MaxLen)

(* %(<key>) with and without a conversion character after it, at offset 0 *)
(* and after one literal character.                                        *)
KeySources ==
    {lead \o <<Ch.percent, Ch.lparen>> \o body \o tail :
        lead \in {<< >>, <<Ch.k>>},
        body \in Strings({Ch.lparen, Ch.rparen, Ch.k}, MaxKey),
        tail \in {<< >>, <<Ch.d>>}}

(* %<digits>d and %.<digits>d                                              *)
QuantitySources ==
    {<<Ch.percent>> \o lead \o digits \o <<Ch.d>> :
        lead \in {<< >>, <<Ch.dot>>},
        digits \in Strings({Ch.zero, 49, Ch.nine}, MaxDigits)}

(* %<c> and k%1<c> for every printable ASCII character c and one beyond.   *)
ConversionSources ==
    {lead \o <<c>> :
        lead \in {<<Ch.percent>>, <<Ch.k, Ch.percent, 49>>},
        c \in (32..126) \cup {233}}

ParseSources ==
    PlainSources \cup KeySources \cup QuantitySources \cup ConversionSources

ParseInit ==
    /\ kind = "str"
    /\ source \in ParseSources
    /\ Idle
    /\ RenderIdle

ParseNext == FromStr

ParseSpec == ParseInit /\ [][ParseNext]_vars

-----------------------------------------------------------------------------
(* Properties of the parser (ParseSpec).                                   *)

(* Text made of characters other than '%' and of '%%' pairs only.          *)
RECURSIVE IsPlain(_)
IsPlain(text) ==
    IF text = << >> THEN TRUE
    ELSE IF text[1] # Ch.percent THEN IsPlain(Tail(text))
    ELSE Len(text) >= 2 /\ text[2] = Ch.percent /\ IsPlain(Tail(Tail(text)))

(* Plain text with every '%%' pair replaced by one '%'.                    *)
RECURSIVE Unescape(_)
Unescape(text) ==
    IF text = << >> THEN << >>
    ELSE IF text[1] # Ch.percent THEN <<text[1]>> \o Unescape(Tail(text))
    ELSE <<Ch.percent>> \o Unescape(Tail(Tail(text)))

(* The parts without their offsets.                                        *)
PartsOnly(ps) == [j \in 1..Len(ps) |-> ps[j][2]]

LiteralOf(text) ==
    IF text = << >> THEN << >> ELSE <<Literal(Unescape(text))>>

(* C12: plain text, made of characters other than '%' and of '%%' pairs,   *)
(* parses to one Literal part holding the text with one '%' per pair, and  *)
(* to no part when empty; around a %d specifier the plain text before and  *)
(* after it makes one Literal part each; no Literal part is empty and no   *)
(* two Literal parts are adjacent.                                         *)
C12_PercentPairs ==
    parsed # None =>
        /\ parsed[1].ok =>
               \A ps \in {parsed[1].parts} :
                   /\ \A j \in 1..Len(ps) :
                          ps[j][2].part = "Literal" => ps[j][2].text # << >>
                   /\ \A j \in 1..(Len(ps) - 1) :
                          ~(/\ ps[j][2].part = "Literal"
                            /\ ps[j + 1][2].part = "Literal")
        /\ IsPlain(source) =>
               /\ parsed[1].ok
               /\ PartsOnly(parsed[1].parts) = LiteralOf(source)
        /\ \A cut \in 1..(Len(source) - 1) :
               (/\ IsPlain(SubSeq(source, 1, cut - 1))
                /\ source[cut] = Ch.percent
                /\ source[cut + 1] = Ch.d
                /\ IsPlain(SubSeq(source, cut + 2, Len(source))))
               => /\ parsed[1].ok
                  /\ PartsOnly(parsed[1].parts) =
                         LiteralOf(SubSeq(source, 1, cut - 1))
                         \o <<Spec_(CFormatSpec(None, {}, None, None,
                                                Number("Decimal"), Ch.d))>>
                         \o LiteralOf(SubSeq(source, cut + 2, Len(source)))

C12_Witness ==
    /\ source = <<Ch.percent, Ch.percent, Ch.percent, Ch.d>>
    /\ parsed # None
    /\ parsed[1].ok
    /\ Len(parsed[1].parts) = 2
    /\ parsed[1].parts[1][2] = Literal(<<Ch.percent>>)
    /\ parsed[1].parts[2][2].part = "Spec"

-----------------------------------------------------------------------------
(* Further properties of the renderer (RenderSpec).                        *)

(* C11: format_string keeps the first min(n, p) characters of the string   *)
(* under a fixed precision p, the whole string without one, and pads what  *)
(* it kept with spaces to the fixed width, before it by default and after  *)
(* it under left-adjust, zero-pad or not.                                  *)
C11_TruncateThenPad ==
    rop = "format_string" =>
        \A kept \in {IF rspec.precision # None
                        /\ rspec.precision[1].q = "Amount"
                     THEN SubSeq(rarg.str, 1,
                                 Min(Len(rarg.str), rspec.precision[1].n))
                     ELSE rarg.str} :
            \A fill \in {IF FixedWidth(rspec)
                         THEN Max(0, rspec.min_field_width[1].n - Len(kept))
                         ELSE 0} :
                /\ Len(rout.out) = Len(kept) + fill
                /\ rout.out = IF "LEFT_ADJUST" \in rspec.flags
                              THEN kept \o Repeat(Ch.space, fill)
                              ELSE Repeat(Ch.space, fill) \o kept

C11_Witness ==
    /\ rop = "format_string"
    /\ rspec.flags = {"ZERO_PAD"}
    /\ rspec.precision = Some(Amount(2))
    /\ rspec.min_field_width = Some(Amount(5))
    /\ rarg.str = <<233, Ch.b, 233>>
    /\ rout.out = <<Ch.space, Ch.space, Ch.space, 233, Ch.b>>

-----------------------------------------------------------------------------
(* Further properties of the parser (ParseSpec).                           *)

(* Text made of characters other than '%', of '%%' pairs and of %d         *)
(* specifiers only: any scan of it ends outside a specifier.               *)
RECURSIVE IsSimple(_)
IsSimple(text) ==
    IF text = << >> THEN TRUE
    ELSE IF text[1] # Ch.percent THEN IsSimple(Tail(text))
    ELSE /\ Len(text) >= 2
         /\ text[2] \in {Ch.percent, Ch.d}
         /\ IsSimple(Tail(Tail(text)))

IncompleteAt(index) ==
    [ok |-> FALSE, typ |-> <<"IncompleteFormat">>, index |-> index]

(* C13: a template that ends in a lone '%' at offset i, the text before it *)
(* being complete, fails to parse with IncompleteFormat at offset i + 1,   *)
(* the length of the template, and returns no parts.                       *)
C13_TrailingPercent ==
    (/\ parsed # None
     /\ source # << >>
     /\ source[Len(source)] = Ch.percent
     /\ IsSimple(SubSeq(source, 1, Len(source) - 1)))
        => parsed[1] = IncompleteAt(Len(source))

C13_Witness ==
    /\ source = <<Ch.k, Ch.percent, Ch.percent, Ch.percent>>
    /\ parsed # None
    /\ parsed[1] = IncompleteAt(4)

IsDigit(c) == c >= Ch.zero /\ c <= Ch.nine

(* The position in text, which opens with '(', of the ')' that brings the  *)
(* depth counted from 1 back to 0; 0 when there is none.                   *)
DepthAt(text, i) ==
    1 + Cardinality({j \in 2..i : text[j] = Ch.lparen})
      - Cardinality({j \in 2..i : text[j] = Ch.rparen})

Closing(text) ==
    IF \E i \in 2..Len(text) : DepthAt(text, i) = 0
    THEN CHOOSE i \in 2..Len(text) :
             /\ DepthAt(text, i) = 0
             /\ \A j \in 2..(i - 1) : DepthAt(text, j) # 0
    ELSE 0

(* Flags, then width digits, then '.' and precision digits, each optional. *)
OpenTail(text) ==
    \E a \in 0..Len(text) : \E b \in a..Len(text) :
        /\ \A i \in 1..a : flag_of(text[i]) # None
        /\ \A i \in (a + 1)..b : IsDigit(text[i])
        /\ \/ b = Len(text)
           \/ /\ text[b + 1] = Ch.dot
              /\ \A i \in (b + 2)..Len(text) : IsDigit(text[i])

(* What may follow '%' in a specifier before its conversion character.     *)
OpenSpecifier(text) ==
    IF text # << >> /\ text[1] = Ch.lparen
    THEN /\ Closing(text) > 0
         /\ OpenTail(SubSeq(text, Closing(text) + 1, Len(text)))
    ELSE OpenTail(text)

EndsInsideSpecifier(text) ==
    \E cut \in 1..(Len(text) - 1) :
        /\ IsSimple(SubSeq(text, 1, cut - 1))
        /\ text[cut] = Ch.percent
        /\ OpenSpecifier(SubSeq(text, cut + 1, Len(text)))

(* C14: a template that ends inside a specifier, after the '%' and a       *)
(* mapping key, flags, width or precision but before the conversion        *)
(* character, fails to parse with IncompleteFormat at the offset where the *)
(* conversion character was expected, the length of the template.          *)
C14_EndInsideSpecifier ==
    (parsed # None /\ EndsInsideSpecifier(source))
        => parsed[1] = IncompleteAt(Len(source))


(* The conversion letters and the type each stands for.                    *)
ConversionTable ==
    {<<Ch.d, Number("Decimal")>>, <<Ch.i, Number("Decimal")>>,
     <<Ch.u, Number("Decimal")>>, <<Ch.o, Number("Octal")>>,
     <<Ch.x, Number("HexLowercase")>>, <<Ch.X, Number("HexUppercase")>>,
     <<Ch.e, Float("ExponentLowercase")>>,
     <<Ch.E, Float("ExponentUppercase")>>,
     <<Ch.f, Float("PointDecimal")>>, <<Ch.F, Float("PointDecimal")>>,
     <<Ch.g, Float("GeneralLowercase")>>,
     <<Ch.G, Float("GeneralUppercase")>>,
     <<Ch.c, Character>>, <<Ch.r, String("Repr")>>, <<Ch.s, String("Str")>>,
     <<Ch.b, String("Bytes")>>, <<Ch.a, String("Ascii")>>}

ConversionLetters == {entry[1] : entry \in ConversionTable}

UnsupportedAt(c, index) ==
    [ok |-> FALSE, typ |-> <<"UnsupportedFormatChar", c>>, index |-> index]

(* Whether the last character of the text stands in conversion position:   *)
(* right after '%' when it can open no key, flag, quantity, precision,     *)
(* length modifier or '%%' pair; after the width of k%1 when it can        *)
(* continue no width and open no precision or length modifier.             *)
InConversionPosition(text) ==
    \/ /\ Len(text) = 2
       /\ text[1] = Ch.percent
       /\ flag_of(text[2]) = None
       /\ ~IsDigit(text[2])
       /\ text[2] \notin {Ch.percent, Ch.lparen, Ch.star, Ch.dot,
                          Ch.h, Ch.l, Ch.L}
    \/ /\ Len(text) = 4
       /\ SubSeq(text, 1, 3) = <<Ch.k, Ch.percent, 49>>
       /\ ~IsDigit(text[4])
       /\ text[4] \notin {Ch.dot, Ch.h, Ch.l, Ch.L}

(* C15: a character in conversion position parses exactly when it is one   *)
(* of d i u o x X e E f F g G c r s b a, to the type the table gives it,   *)
(* and is stored as the specifier's conversion character; any other fails  *)
(* with UnsupportedFormatChar carrying the character and its offset.  In   *)
(* every parsed specifier the stored character and the type agree.         *)
C15_ConversionTable ==
    parsed # None =>
        /\ InConversionPosition(source) =>
               \A c \in {source[Len(source)]} :
                   IF c \in ConversionLetters
                   THEN /\ parsed[1].ok
                        /\ \A last \in {parsed[1].parts[Len(parsed[1].parts)]} :
                               /\ last[2].part = "Spec"
                               /\ last[2].spec.format_char = c
                               /\ <<c, last[2].spec.format_type>>
                                      \in ConversionTable
                   ELSE parsed[1] = UnsupportedAt(c, Len(source) - 1)
        /\ parsed[1].ok =>
               \A j \in 1..Len(parsed[1].parts) :
                   parsed[1].parts[j][2].part = "Spec" =>
                       <<parsed[1].parts[j][2].spec.format_char,
                         parsed[1].parts[j][2].spec.format_type>>
                           \in ConversionTable
        /\ (~parsed[1].ok /\ parsed[1].typ[1] = "UnsupportedFormatChar") =>
               /\ parsed[1].index + 1 <= Len(source)
               /\ source[parsed[1].index + 1] = parsed[1].typ[2]
               /\ parsed[1].typ[2] \notin ConversionLetters

C15_Witness ==
    /\ source = <<Ch.k, Ch.percent, 49, Ch.n>>
    /\ parsed # None
    /\ parsed[1] = UnsupportedAt(Ch.n, 3)


(* The 1-based position of the first '%' of the text, 0 when it has none.  *)
FirstPercent(text) ==
    IF \E i \in 1..Len(text) : text[i] = Ch.percent
    THEN CHOOSE i \in 1..Len(text) :
             /\ text[i] = Ch.percent
             /\ \A j \in 1..(i - 1) : text[j] # Ch.percent
    ELSE 0

UnmatchedAt(index) ==
    [ok |-> FALSE, typ |-> <<"UnmatchedKeyParentheses">>, index |-> index]

(* C16: when '(' directly follows the first '%' of a template, the key of  *)
(* that specifier is the text between the '(' and the ')' that brings the  *)
(* depth, counted from 1, back to 0, inner parentheses included; when no   *)
(* ')' does, the parse fails with UnmatchedKeyParentheses at the offset of *)
(* the '('.                                                                *)
C16_MappingKey ==
    (/\ parsed # None
     /\ FirstPercent(source) > 0
     /\ FirstPercent(source) < Len(source)
     /\ source[FirstPercent(source) + 1] = Ch.lparen)
        => \A q \in {FirstPercent(source)} :
           \A rest \in {SubSeq(source, q + 1, Len(source))} :
           \A close \in {Closing(rest)} :
               IF close = 0
               THEN parsed[1] = UnmatchedAt(q)
               ELSE /\ parsed[1].ok =>
                        \E j \in 1..Len(parsed[1].parts) :
                            /\ parsed[1].parts[j][2].part = "Spec"
                            /\ \A i \in 1..(j - 1) :
                                   parsed[1].parts[i][2].part = "Literal"
                            /\ parsed[1].parts[j][2].spec.mapping_key =
                                   Some(SubSeq(rest, 2, close - 1))
                    /\ SubSeq(rest, close + 1, Len(rest)) = <<Ch.d>>
                           => parsed[1].ok
                    /\ ~parsed[1].ok => parsed[1] # UnmatchedAt(q)

C16_Witness ==
    /\ source = <<Ch.percent, Ch.lparen, Ch.lparen, Ch.k, Ch.rparen,
                  Ch.rparen, Ch.d>>
    /\ parsed # None
    /\ parsed[1].ok
    /\ parsed[1].parts[1][2].spec.mapping_key =
           Some(<<Ch.lparen, Ch.k, Ch.rparen>>)


(* The decimal value of the first k digit characters of a run.             *)
RECURSIVE ValueOf(_, _)
ValueOf(run, k) ==
    IF k = 0 THEN 0 ELSE ValueOf(run, k - 1) * 10 + (run[k] - Ch.zero)

(* Number of leading '0' characters, which before a width are flags.       *)
RECURSIVE LeadingZeros(_)
LeadingZeros(text) ==
    IF text # << >> /\ text[1] = Ch.zero THEN 1 + LeadingZeros(Tail(text))
    ELSE 0

(* What %<digits>d and %.<digits>d must parse to: the digit run starts at  *)
(* 1-based position `first` of the source and is the width or precision.   *)
QuantityParsedAs(first, is_width) ==
    \A run \in {SubSeq(source, first, Len(source) - 1)} :
    \A overflowing \in {{k \in 1..Len(run) : ValueOf(run, k) > IsizeMax}} :
        IF overflowing = {}
        THEN /\ parsed[1].ok
             /\ Len(parsed[1].parts) = 1
             /\ \A quantity \in
                    {IF is_width
                     THEN parsed[1].parts[1][2].spec.min_field_width
                     ELSE parsed[1].parts[1][2].spec.precision} :
                    IF run = << >> THEN quantity = None
                    ELSE /\ quantity = Some(Amount(ValueOf(run, Len(run))))
                         /\ quantity[1].n <= IsizeMax
        ELSE \E k \in overflowing :
                 /\ \A j \in overflowing : k <= j
                 /\ parsed[1] = [ok |-> FALSE, typ |-> <<"IntTooBig">>,
                                 index |-> first + k - 2]

(* C20: a width or precision written as a run of decimal digits parses to  *)
(* Amount(v), v the decimal value of the run, when no step of the          *)
(* accumulation exceeds the largest value of the signed size type, and     *)
(* otherwise fails with IntTooBig at the offset of the first digit whose    *)
(* step does; the amount is never a wrapped value.                         *)
C20_DigitRun ==
    (/\ parsed # None
     /\ Len(source) >= 2
     /\ source[1] = Ch.percent
     /\ source[Len(source)] = Ch.d
     /\ \A i \in 3..(Len(source) - 1) : IsDigit(source[i])
     /\ (Len(source) >= 3 => (IsDigit(source[2]) \/ source[2] = Ch.dot)))
        => IF Len(source) >= 3 /\ source[2] = Ch.dot
           THEN QuantityParsedAs(3, FALSE)
           ELSE QuantityParsedAs(
                    2 + LeadingZeros(SubSeq(source, 2, Len(source) - 1)),
                    TRUE)

C20_Witness ==
    /\ source = <<Ch.percent, 49, Ch.nine, Ch.d>>
    /\ parsed # None
    /\ parsed[1] = [ok |-> FALSE, typ |-> <<"IntTooBig">>, index |-> 2]

-----------------------------------------------------------------------------
(* One argument through one conversion: %c through CFormatSpec::format,    *)
(* a byte string through format_bytes, an f64 through format_float.        *)

MaxCode == 127
MaxExp == 2

ConvertFlags == {{}, {"LEFT_ADJUST"}, {"ZERO_PAD"}, {"SIGN_CHAR"}}

ConvertTypes ==
    {Character, String("Bytes"), Float("ExponentLowercase"),
     Float("ExponentUppercase")}

(* Specifier records as CFormatSpec::parse builds them for %c, %b, %e, %E: *)
(* a float conversion without a written precision has precision 6.        *)
ConvertSpecs ==
    {CFormatSpec(None, flags, width,
                 IF format_type.ty = "Float" /\ precision = None
                 THEN Some(Amount(6)) ELSE precision,
                 format_type,
                 IF format_type = Character THEN Ch.c
                 ELSE IF format_type = String("Bytes") THEN Ch.b
                 ELSE IF format_type = Float("ExponentLowercase") THEN Ch.e
                 ELSE Ch.E) :
        flags \in ConvertFlags,
        width \in Quantities(MaxWidth),
        precision \in Quantities(MaxPrecision),
        format_type \in ConvertTypes}

(* Integers around the ends of the code point range and of the surrogate   *)
(* block (0xD800..0xDFFF), and the small codes.                            *)
CodeArgs ==
    {PyInt(k) : k \in (0 - 1)..MaxCode}
    \cup {PyInt(55295), PyInt(55296), PyInt(57343), PyInt(57344),
          PyInt(1114111), PyInt(1114112)}

(* Positive and negative finite non-zero values d1.d2...dn * 10^exp.       *)
FloatArgs ==
    {PyFloat(Finite(neg, digits, exp)) :
        neg \in BOOLEAN,
        digits \in UNION {[1..m -> {1, 5, 9}] : m \in 1..MaxDigits},
        exp \in (0 - MaxExp)..MaxExp}

ConvertArgs(format_type) ==
    IF format_type = Character
    THEN CodeArgs \cup {PyStr(text) : text \in Texts}
         \cup {PyBytes(<<66>>), PyTuple(<< >>)}
    ELSE IF format_type.ty = "String"
    THEN {PyBytes(bytes) : bytes \in Texts}
    ELSE FloatArgs

ConvertInit ==
    /\ kind = "str"
    /\ source = << >>
    /\ Idle
    /\ rspec \in ConvertSpecs
    /\ rarg \in ConvertArgs(rspec.format_type)
    /\ rout = NoResult
    /\ rop = "none"

Converted(op, out) ==
    /\ rop = "none"
    /\ rop' = op
    /\ rout' = out
    /\ UNCHANGED <<kind, source, parsed, parts, before, calls, args, result,
                   mode, log, rspec, rarg>>

(* spec.format(vm, obj) of a %c specifier                                  *)
Format ==
    /\ rspec.format_type = Character
    /\ Converted("format", CFormatSpec_format(rspec, rarg))

(* spec.format_bytes(bytes)                                                *)
FormatBytesSlice ==
    /\ rspec.format_type.ty = "String"
    /\ Converted("format_bytes", format_bytes(rspec, rarg.bytes))

(* spec.format_float(num)                                                  *)
FormatFloat ==
    /\ rspec.format_type.ty = "Float"
    /\ Converted("format_float", format_float(rspec, rarg.float))

ConvertNext == Format \/ FormatBytesSlice \/ FormatFloat

ConvertSpec == ConvertInit /\ [][ConvertNext]_vars

-----------------------------------------------------------------------------
(* C17: %c renders every integer k with 0 <= k < 0x110000 as the one       *)
(* character of that code point, fails with the overflow error '%c arg not *)
(* in range(0x110000)' exactly for the integers outside that range,        *)
(* renders a text of exactly one character as that character, and fails    *)
(* with the type error '%c requires int or char' for every other value.    *)
CharacterField(spec, ch) ==
    LET w == spec.min_field_width
        fill == Repeat(Ch.space, IF w = None THEN 0 ELSE w[1].n - 1)
    IN  IF "LEFT_ADJUST" \in spec.flags THEN <<ch>> \o fill ELSE fill \o <<ch>>

C17_CharacterRange ==
    (rop = "format" /\ rspec.format_type = Character) =>
        IF rarg.cls = "int"
        THEN IF rarg.int >= 0 /\ rarg.int < 1114112
             THEN rout = Ok(CharacterField(rspec, rarg.int))
             ELSE rout = Err("OverflowError", "%c arg not in range(0x110000)",
                             0, "")
        ELSE IF rarg.cls = "str" /\ Len(rarg.str) = 1
        THEN rout = Ok(CharacterField(rspec, rarg.str[1]))
        ELSE rout = TypeError("%c requires int or char")

-----------------------------------------------------------------------------
(* C18: format_bytes on a byte string of length n with precision p and     *)
(* width w returns the first min(n, p) bytes (all of them without a        *)
(* precision) in a field of max(kept, w) bytes filled with 0x20, the       *)
(* content first under '-' and last otherwise; when w is smaller than the  *)
(* content the content is returned unpadded and the call completes.        *)
BytesKept(spec, bytes) ==
    IF spec.precision # None /\ spec.precision[1].q = "Amount"
    THEN SubSeq(bytes, 1, Min(Len(bytes), spec.precision[1].n))
    ELSE bytes

BytesField(spec, content) ==
    LET w == spec.min_field_width
        total == IF w # None /\ w[1].q = "Amount"
                 THEN Max(Len(content), w[1].n) ELSE Len(content)
        fill == [j \in 1..(total - Len(content)) |-> 32]
    IN  IF "LEFT_ADJUST" \in spec.flags THEN content \o fill
        ELSE fill \o content

C18_BytesField ==
    rop = "format_bytes" =>
        rout = Ok(BytesField(rspec, BytesKept(rspec, rarg.bytes)))

-----------------------------------------------------------------------------
(* C19: an exponent conversion (%e, %E) of a finite non-zero value yields  *)
(* a mantissa with exactly one digit before the decimal point, that digit  *)
(* non-zero, also when rounding to the precision carries into the leading  *)
(* digit; the exponent is printed with a sign and at least two digits.     *)
(* Read on the outputs without zero fill, where the digits before the      *)
(* point are the mantissa's alone.                                         *)
FirstOf(text, chars) ==
    IF \E j \in 1..Len(text) : text[j] \in chars
    THEN CHOOSE j \in 1..Len(text) :
             /\ text[j] \in chars
             /\ \A i \in 1..(j - 1) : text[i] \notin chars
    ELSE 0

WellFormedExponent(text) ==
    LET point == FirstOf(text, {Ch.dot, Ch.e})
        mark == FirstOf(text, {Ch.e})
    IN  /\ point > 1
        /\ text[point - 1] > Ch.zero /\ text[point - 1] <= Ch.nine
        /\ point = 2 \/ ~IsDigit(text[point - 2])
        /\ mark > 0 /\ Len(text) >= mark + 3
        /\ text[mark + 1] \in {Ch.plus, Ch.minus}
        /\ IsDigit(text[mark + 2]) /\ IsDigit(text[mark + 3])

C19_ExponentMantissa ==
    (/\ rop = "format_float"
     /\ rspec.format_type.sub \in {"ExponentLowercase", "ExponentUppercase"}
     /\ rarg.float.cat = "finite" /\ ~is_zero(rarg.float)
     /\ "ZERO_PAD" \notin rspec.flags) =>
        /\ rout.tag = "Ok"
        /\ \A text \in {rout.out} : WellFormedExponent(text)

-----------------------------------------------------------------------------
(* C21: whenever a format call that does not fail resolved a '*' width or  *)
(* precision from an integer argument k, the fixed amount stored in the    *)
(* specifier is the non-negative number k itself; no integer argument is   *)
(* stored as a different, wrapped-around amount.                           *)
QuantityOf(spec, role) ==
    IF role = "width" THEN spec.min_field_width ELSE spec.precision

StoredAsGiven(t, element) ==
    /\ element.int >= 0
    /\ QuantityOf(parts[t.part][2].spec, t.role) = Some(Amount(element.int))

C21_StarAmount ==
    (calls >= 1 /\ ~mode /\ result.tag = "Ok") =>
        \A vals \in {Normalized(args)} :
            \A t \in Range(log) :
                (/\ t.role # "value"
                 /\ QuantityOf(before[t.part][2].spec, t.role)
                        = Some(FromValuesTuple)
                 /\ isinstance(vals[t.index + 1], "int"))
                    => StoredAsGiven(t, vals[t.index + 1])

-----------------------------------------------------------------------------
(* C22: a format call, successful or failed, leaves the number and order   *)
(* of the parts, their offsets, every literal text, and each specifier's   *)
(* mapping key, flags, conversion type and conversion character as they    *)
(* were; a width or precision changes only from the '*' marker to a fixed  *)
(* amount, one that held a fixed amount (or was absent) stays as it was,   *)
(* and a specifier with a mapping key is not changed at all.               *)
QuantityFrame(old, new) ==
    \/ new = old
    \/ old = Some(FromValuesTuple) /\ new # None /\ new[1].q = "Amount"

SpecFrame(old, new) ==
    /\ new.mapping_key = old.mapping_key
    /\ new.flags = old.flags
    /\ new.format_type = old.format_type
    /\ new.format_char = old.format_char
    /\ QuantityFrame(old.min_field_width, new.min_field_width)
    /\ QuantityFrame(old.precision, new.precision)
    /\ old.mapping_key # None => new = old

C22_FormatFrame ==
    calls >= 1 =>
        /\ Len(parts) = Len(before)
        /\ \A j \in 1..Len(before) :
               /\ parts[j][1] = before[j][1]
               /\ parts[j][2].part = before[j][2].part
               /\ before[j][2].part = "Literal" => parts[j] = before[j]
               /\ before[j][2].part = "Spec"
                      => SpecFrame(before[j][2].spec, parts[j][2].spec)

(* '%*s%(k)*d' % (2,) fails at the keyed specifier after the first one's   *)
(* width was stored: only that width differs.                              *)
C22_Witness ==
    /\ calls >= 1
    /\ source = <<Ch.percent, Ch.star, Ch.s, Ch.percent, Ch.lparen, Ch.k, Ch.rparen, Ch.star, Ch.d>>
    /\ result.tag = "Err"
    /\ before[1][2].spec.min_field_width = Some(FromValuesTuple)
    /\ parts[1][2].spec.min_field_width = Some(Amount(2))
    /\ parts[2] = before[2]
    /\ parts[2][2].spec.min_field_width = Some(FromValuesTuple)

-----------------------------------------------------------------------------
(* normalize_float step by step: one action per turn of its loop.  rarg    *)
(* is the magnitude it was given, rout the locals `fraction` and           *)
(* `exponent` while it runs and the returned pair afterwards.              *)

(* Width in bits of the exponent counter (i32).                            *)
ExponentBits == 4

ExponentMax == Pow2(ExponentBits - 1) - 1
ExponentMin == 0 - Pow2(ExponentBits - 1)

(* num.abs() of the values format_float can be given.                      *)
Magnitudes ==
    {Finite(FALSE, <<0>>, 0), Infinity(FALSE), NaN}
    \cup {Finite(FALSE, digits, exp) :
              digits \in UNION {[1..m -> {1, 5, 9}] : m \in 1..MaxDigits},
              exp \in (0 - MaxExp)..MaxExp}

Looping(fraction, exponent) ==
    [tag |-> "Loop", fraction |-> fraction, exponent |-> exponent]

(* fraction >= 10.0: false for NaN, true for positive infinity.            *)
at_least_ten(fraction) ==
    \/ fraction.cat = "inf" /\ ~fraction.neg
    \/ fraction.cat = "finite" /\ ~is_zero(fraction) /\ fraction.exp >= 1

(* fraction < 1.0 && fraction > 0.0: false for NaN and for zero.           *)
below_one(fraction) ==
    fraction.cat = "finite" /\ ~is_zero(fraction) /\ fraction.exp < 0

(* fraction /= 10.0 and fraction *= 10.0: infinity stays infinity.         *)
divided_by_ten(fraction) ==
    IF fraction.cat = "finite" THEN [fraction EXCEPT !.exp = @ - 1]
    ELSE fraction

times_ten(fraction) ==
    IF fraction.cat = "finite" THEN [fraction EXCEPT !.exp = @ + 1]
    ELSE fraction

NormalizeInit ==
    /\ kind = "str"
    /\ source = << >>
    /\ Idle
    /\ rspec = NoSpec
    /\ rarg \in {PyFloat(num) : num \in Magnitudes}
    /\ rout = NoResult
    /\ rop = "none"

NormalizeTo(op, out) ==
    /\ rop' = op
    /\ rout' = out
    /\ UNCHANGED <<kind, source, parsed, parts, before, calls, args, result,
                   mode, log, rspec, rarg>>

(* let mut fraction = num; let mut exponent = 0;                           *)
NormalizeEnter ==
    /\ rop = "none"
    /\ NormalizeTo("loop", Looping(rarg.float, 0))

(* if fraction >= 10.0 { fraction /= 10.0; exponent += 1; }                *)
NormalizeDivide ==
    /\ rop = "loop"
    /\ at_least_ten(rout.fraction)
    /\ rout.exponent < ExponentMax
    /\ NormalizeTo("loop", Looping(divided_by_ten(rout.fraction),
                                   rout.exponent + 1))

(* exponent += 1 at i32::MAX, built with overflow checks: the panic.       *)
NormalizeOverflowChecked ==
    /\ rop = "loop"
    /\ at_least_ten(rout.fraction)
    /\ rout.exponent = ExponentMax
    /\ NormalizeTo("panic", Panic)

(* exponent += 1 at i32::MAX, built without overflow checks: the wrap.     *)
NormalizeOverflowWrapping ==
    /\ rop = "loop"
    /\ at_least_ten(rout.fraction)
    /\ rout.exponent = ExponentMax
    /\ NormalizeTo("loop", Looping(divided_by_ten(rout.fraction),
                                   ExponentMin))

(* else if fraction < 1.0 && fraction > 0.0 { fraction *= 10.0; ... }      *)
NormalizeMultiply ==
    /\ rop = "loop"
    /\ ~at_least_ten(rout.fraction)
    /\ below_one(rout.fraction)
    /\ rout.exponent > ExponentMin
    /\ NormalizeTo("loop", Looping(times_ten(rout.fraction),
                                   rout.exponent - 1))

(* else { break; }  (fraction, exponent)                                   *)
NormalizeReturn ==
    /\ rop = "loop"
    /\ ~at_least_ten(rout.fraction)
    /\ ~below_one(rout.fraction)
    /\ NormalizeTo("returned", Ok([fraction |-> rout.fraction,
                                   exponent |-> rout.exponent]))

NormalizeNext ==
    \/ NormalizeEnter
    \/ NormalizeDivide
    \/ NormalizeOverflowChecked
    \/ NormalizeOverflowWrapping
    \/ NormalizeMultiply
    \/ NormalizeReturn

(* The computation is synchronous and single-threaded: a step that can be  *)
(* taken is taken.                                                         *)
NormalizeSpec ==
    NormalizeInit /\ [][NormalizeNext]_vars /\ WF_vars(NormalizeNext)

(* C23: the normalization loop terminates for every magnitude it can be    *)
(* given: normalize_float is left after finitely many steps for zero, for  *)
(* every positive finite value, for positive infinity and for NaN, and     *)
(* never loops forever.  Leaving it by the abort of a checked overflow is  *)
(* counted as terminating here, which only weakens the statement.          *)
C23_NormalizeTerminates == <>(rop \in {"returned", "panic"})

-----------------------------------------------------------------------------
(* The bytes driver on the parts and the args object the text driver's     *)
(* last call was given.                                                    *)
IsBindingError(res) == res \in {RequiresMapping, NotEnough, WantsInt, NotAll}

(* The call ran to its end or to a binding or lookup error: no conversion  *)
(* of a value ended it.                                                    *)
EveryValueRendered(res) ==
    \/ res.tag = "Ok"
    \/ IsBindingError(res)
    \/ res = Err("KeyError", "key", 0, "")
    \/ res = TypeError("tuple indices must be integers or slices, not str")

AgreeOn(n, other) == \A i \in 1..n : other[i] = log[i]

(* C24 as stated: for the same parts and the same args object the two      *)
(* drivers choose the same binding mode, take the same elements for the    *)
(* same parts in the same order, store the same resolved '*' amounts, and  *)
(* raise the same binding error at the same point.                         *)
C24_SameBinding ==
    calls >= 1 =>
        \A b \in {CFormatBytes_format(before, args)} :
            /\ b.mode = mode
            /\ b.log = log
            /\ b.parts = parts
            /\ (IsBindingError(result) \/ IsBindingError(b.res))
                   => b.res = result

(* C24 amended: the two drivers choose the same binding mode and take the  *)
(* same elements for the same parts in the same order for as long as both  *)
(* run; when no conversion of a value ends either call they take the same  *)
(* elements in all, store the same resolved '*' amounts and end alike, in  *)
(* success or in the same binding error.  A conversion that fails in one   *)
(* driver only ends that call earlier.                                     *)
C24_SameBindingWhileBothRun ==
    calls >= 1 =>
        \A b \in {CFormatBytes_format(before, args)} :
            /\ b.mode = mode
            /\ AgreeOn(Min(Len(log), Len(b.log)), b.log)
            /\ (EveryValueRendered(result) /\ EveryValueRendered(b.res)) =>
                   /\ b.log = log
                   /\ b.parts = parts
                   /\ b.res.tag = result.tag
                   /\ result.tag # "Ok" => b.res = result

(* '%*.*d' % (2, 2): both drivers store width 2 and precision 2 and end    *)
(* with 'not enough arguments' after two elements.                         *)
C24_Witness ==
    /\ calls = 1
    /\ source = <<Ch.percent, Ch.star, Ch.dot, Ch.star, Ch.d>>
    /\ args = PyTuple(<<PyInt(2), PyInt(2)>>)
    /\ result = NotEnough
    /\ Len(log) = 2
    /\ parts[1][2].spec.precision = Some(Amount(2))
    /\ CFormatBytes_format(before, args).res = NotEnough
    /\ CFormatBytes_format(before, args).parts = parts

====
